---- MODULE Spec2Model ----
(***************************************************************************)
(* Model of the cabat asset cache: the per-type AssetStorage with its      *)
(* deferred reference counting (cabat_assets/src/asset_storage.rs) and the *)
(* Handle whose constructor, clone and destructor feed the signal channel  *)
(* (cabat_assets/src/handle.rs).                                           *)
(*                                                                         *)
(* Spec        one storage under insert, load, clone, drop and pass        *)
(* SpecOrder   one pass over the same signals delivered in two orders      *)
(* SpecLoad    load_file as its caller sees it, with several loaders       *)
(* SpecManager several storages registered with an AssetManager            *)
(* SpecTick    the runner's tick and the systems of its stages             *)
(* SpecDrain   one pass over a queue with signals for unknown ids          *)
(* SpecThreads threads in get, insert, load, clone, drop and the pass      *)
(* SpecReenter the same threads with a loader that calls into its storage  *)
(* SpecRender  the tick of an application that draws textured sprites      *)
(* SpecEvents  the EventHandler under add_event, get_event and activation  *)
(***************************************************************************)
EXTENDS Integers, Sequences, FiniteSets, TLC

\* ------------------------------------------------------------------ bounds

\* how many ids one run issues (insert_asset / load_file successes)
MaxIds == 2

\* how many Handle values for one id are alive at once
MaxHandles == 2

\* how many signals the unbounded channel holds between two passes
MaxQueue == 3

\* how many loaders one run registers
MaxLoaders == 1

\* ------------------------------------------------------------------ values

\* A u32 (HandleInner, the liveness count) is held as an integer.  The runs
\* stay far below 2^32, so the only wrap they can meet is 0 - 1: a build
\* without overflow checks leaves u32::MAX there, written -1 (its residue
\* modulo 2^32), and a build with overflow checks panics.  The wrap of the
\* id generator after 2^32 issues is out of the runs' reach.

\* Option::None
None == "None"

\* ------------------------------------------------------------- input sets

\* asset values handed to insert_asset, or decoded by a loader
Assets == {"lorem"}

\* Files under the load path: what the path checks of load_file see, and
\* what the matched loader's load_path returns for it.
Files ==
    { [name |-> "missing.bin", exists |-> FALSE, is_file |-> FALSE, ext |-> "bin", decoded |-> None],
      [name |-> "res_dir",     exists |-> TRUE,  is_file |-> FALSE, ext |-> None,  decoded |-> None],
      [name |-> "README",      exists |-> TRUE,  is_file |-> TRUE,  ext |-> None,  decoded |-> None],
      [name |-> "yay.jpg",     exists |-> TRUE,  is_file |-> TRUE,  ext |-> "jpg", decoded |-> None],
      [name |-> "ipsum.txt",   exists |-> TRUE,  is_file |-> TRUE,  ext |-> "txt", decoded |-> "ipsum"],
      [name |-> "broken.txt",  exists |-> TRUE,  is_file |-> TRUE,  ext |-> "txt", decoded |-> None] }

\* The loader of text assets, by the extensions it advertises.
TextLoader == [name |-> "TextLoader", extensions |-> {"txt"}]

\* the loaders register_loader is called with
Loaders == {TextLoader}

\* ------------------------------------------------------------------ state

VARIABLES
    current_id,       \* AssetStorageInner::current_id, the id generator
    loaded_assets,    \* AssetStorageInner::loaded_assets: id -> data
    removed_assets,   \* AssetStorageInner::removed_assets: ids the last pass removed
    handle_count,     \* AssetStorageInner::handle_count: id -> u32
    asset_loaders,    \* AssetStorageInner::asset_loaders, in registration order
    channel,          \* the crossbeam channel between sender and receiver
    handles,          \* how many Handle values exist for each id
    fatal,            \* a panic has unwound an operation
    issued,           \* history: the ids insert_asset has returned, in order
    evicted,          \* history: the ids a pass has removed from loaded_assets
    recent,           \* history: where the last operations on handles and
                      \* the last passes stand in the sequences "pass, pass"
                      \* and "clone, drop, pass"
    queued,           \* SpecOrder: the counts and the channel contents a pass meets
    drained,          \* SpecOrder: what the pass left of two deliveries of them
    last_load,        \* SpecLoad: the last load_file call as its caller saw it
    storages,         \* SpecManager: AssetManager::storages, type -> storage
    register_ret,     \* SpecManager: the last register_storage call and its result
    stores,           \* SpecManager: the fields of every AssetStorage
    held,             \* SpecManager: the handles the application holds
    runner,           \* SpecTick: where RunnerInner::tick stands, and what ran
    instances,        \* SpecRender: the keys of Texture3dRenderer::instances
    handler,          \* SpecEvents: the EventHandler, and what its calls returned
    lock,             \* SpecThreads: the RwLock around AssetStorageInner
    pc,               \* SpecThreads: where each thread stands in its call
    alive,            \* SpecThreads: the storage has not been dropped
    warned,           \* SpecThreads: how many log::warn! lines Handle::drop wrote
    reentered         \* SpecReenter: the load calls suspended in their loader

\* SpecOrder's variables
order_vars == << queued, drained >>

\* the variables of the specifications other than Spec, which the actions on
\* one storage leave alone
\* SpecManager's variables
manager_vars == << storages, register_ret, stores, held >>

\* SpecThreads' variables
thread_vars == << lock, pc, alive, warned, reentered >>

aux == << order_vars, last_load, manager_vars, runner, instances, handler, thread_vars >>

vars ==
    << current_id, loaded_assets, removed_assets, handle_count, asset_loaders,
       channel, handles, fatal, issued, evicted, recent, aux >>

Ids == 0 .. (MaxIds - 1)

\* ---------------------------------------------------------------- helpers

Increase(id) == [kind |-> "Increase", id |-> id]

Decrease(id) == [kind |-> "Decrease", id |-> id]

\* HashMap::remove
MapRemove(map, key) == [k \in (DOMAIN map) \ {key} |-> map[k]]

\* HashMap::insert: a present key gets the new value
MapInsert(map, key, value) == (key :> value) @@ map

\* SeqToSet(<<a, b>>) = {a, b}
SeqToSet(seq) == {seq[i] : i \in DOMAIN seq}

\* the id field of recent when no id is tracked
NoId == 0 - 1

\* recent after one more operation: op is "clone", "drop", "pass" or "other"
Remember(op, id) ==
    CASE op = "clone" -> [tag |-> "clone", id |-> id]
      [] op = "drop" ->
            IF recent = [tag |-> "clone", id |-> id]
            THEN [tag |-> "clone_drop", id |-> id]
            ELSE [tag |-> "other", id |-> NoId]
      [] op = "pass" ->
            IF recent.tag = "clone_drop" THEN [tag |-> "clone_drop_pass", id |-> recent.id]
            ELSE IF recent.tag \in {"pass", "pass_pass", "clone_drop_pass"}
            THEN [tag |-> "pass_pass", id |-> NoId]
            ELSE [tag |-> "pass", id |-> NoId]
      [] OTHER -> [tag |-> "other", id |-> NoId]

\* get_next on a generator one bit wide
get_next_narrow(id) == [id |-> id, next |-> (id + 1) % 2]

\* get_next without the `self.0 += 1`
get_next_stuck(id) == [id |-> id, next |-> id]

\* HandleInner::get_next: returns the current value, advances by one.
get_next(id) == [id |-> id, next |-> id + 1]

\* send_increase that announces nothing
send_increase_silent(q, id) == q

\* Handle::new / Handle::clone: one Increase on the channel
send_increase(q, id) == Append(q, Increase(id))

\* send_decrease that announces the drop twice
send_decrease_twice(q, id) == Append(Append(q, Decrease(id)), Decrease(id))

\* Handle::drop: one Decrease on the channel
send_decrease(q, id) == Append(q, Decrease(id))

\* insert_asset without its handle_count.insert
insert_count_missing(count, id) == count

\* insert_asset entering the id as already counted once
insert_count_one(count, id) == MapInsert(count, id, 1)

\* insert_asset's handle_count.insert(id, 0)
insert_count(count, id) == MapInsert(count, id, 0)

\* update_handles without its removed_assets.clear()
cleared_never(removed) == removed

\* update_handles' removed_assets.clear()
cleared(removed) == << >>

\* apply_increase that enters an unknown id with count 1 and goes on
apply_increase_entering(count, id) ==
    [ok |-> TRUE,
     count |-> IF id \in DOMAIN count THEN [count EXCEPT ![id] = @ + 1]
               ELSE MapInsert(count, id, 1)]

\* apply_increase without the `*count += 1`
apply_increase_forgotten(count, id) ==
    [ok |-> id \in DOMAIN count, count |-> count]

\* The Increase arm of update_handles; ok = FALSE is the unimplemented!()
\* of an id without entry.
apply_increase(count, id) ==
    IF id \notin DOMAIN count THEN [ok |-> FALSE, count |-> count]
    ELSE [ok |-> TRUE, count |-> [count EXCEPT ![id] = @ + 1]]

\* apply_decrease without the `*count -= 1`
apply_decrease_forgotten(count, id, checked) ==
    [ok |-> id \in DOMAIN count, count |-> count]

\* The Decrease arm of update_handles; ok = FALSE is the unimplemented!()
\* of an id without entry, or the overflow panic of 0 - 1.
apply_decrease(count, id, checked) ==
    IF id \notin DOMAIN count THEN [ok |-> FALSE, count |-> count]
    ELSE IF count[id] = 0 /\ checked THEN [ok |-> FALSE, count |-> count]
    ELSE [ok |-> TRUE, count |-> [count EXCEPT ![id] = @ - 1]]

\* reached_zero with the comparison off by one
reached_zero_early(count, id) == count[id] <= 1

\* Whether the Decrease arm pushes the id on removed_assets.
reached_zero(count, id) == count[id] = 0

\* The receive loop of update_handles: try_recv until Empty, one signal at
\* a time, in channel order.  A fatal arm stops the loop with the signal
\* already taken from the channel.
RECURSIVE drain(_, _, _, _)
drain(q, count, removed, checked) ==
    IF q = << >>
    THEN [channel |-> q, handle_count |-> count, removed_assets |-> removed, fatal |-> FALSE]
    ELSE
        LET sig  == Head(q)
            next == IF sig.kind = "Increase"
                    THEN apply_increase(count, sig.id)
                    ELSE apply_decrease(count, sig.id, checked)
        IN  IF ~next.ok
            THEN [channel |-> Tail(q), handle_count |-> count,
                  removed_assets |-> removed, fatal |-> TRUE]
            ELSE drain(Tail(q), next.count,
                       IF sig.kind = "Decrease" /\ reached_zero(next.count, sig.id)
                       THEN Append(removed, sig.id) ELSE removed,
                       checked)

\* remove_pending without its loop: only the first id of the list leaves
remove_pending_first(map, removed) ==
    IF removed = << >> THEN map ELSE MapRemove(map, Head(removed))

\* remove_pending that empties the map as soon as one id is pending
remove_pending_all(map, removed) == IF removed = << >> THEN map ELSE << >>

\* "Remove pending assets": every id of the list leaves both maps.
RECURSIVE remove_pending(_, _)
remove_pending(map, removed) ==
    IF removed = << >> THEN map
    ELSE remove_pending(MapRemove(map, Head(removed)), Tail(removed))

\* AssetStorageInner::update_handles: the fields it leaves.  A fatal arm
\* unwinds before "Remove pending assets".
update_handles(q, count, loaded, removed, checked) ==
    LET d == drain(q, count, cleared(removed), checked)
    IN  [ channel        |-> d.channel,
          fatal          |-> d.fatal,
          removed_assets |-> d.removed_assets,
          handle_count   |-> IF d.fatal THEN d.handle_count
                             ELSE remove_pending(d.handle_count, d.removed_assets),
          loaded_assets  |-> IF d.fatal THEN loaded
                             ELSE remove_pending(loaded, d.removed_assets) ]

\* AssetStorage::get_asset
get_asset(id) == IF id \in DOMAIN loaded_assets THEN loaded_assets[id] ELSE None

\* find_loader that keeps the last match instead of the first
find_loader_last(loaders, ext) ==
    LET hits == {i \in 1 .. Len(loaders) : ext \in loaders[i].extensions}
    IN  IF hits = {} THEN 0 ELSE CHOOSE i \in hits : \A j \in hits : i >= j

\* The loader load_file picks: the first, in registration order, whose
\* extensions contain ext; 0 when there is none.
find_loader(loaders, ext) ==
    LET hits == {i \in 1 .. Len(loaders) : ext \in loaders[i].extensions}
    IN  IF hits = {} THEN 0 ELSE CHOOSE i \in hits : \A j \in hits : i <= j

\* an extension that is not valid UTF-8
NonUtf8 == "<non-UTF-8>"

\* OsStr::to_str
to_str(ext) == IF ext = NonUtf8 THEN None ELSE ext

\* The checks of load_file before the storage is written: the error it
\* returns, or "Ok"; "Panic" is the unwrap() of an extension to_str has no
\* string for.
load_outcome(loaders, file) ==
    IF ~file.exists THEN "FileDoesNotExist"
    ELSE IF ~file.is_file THEN "IsNotFile"
    ELSE IF file.ext = None THEN "InvalidExtension"
    ELSE IF to_str(file.ext) = None THEN "Panic"
    ELSE IF find_loader(loaders, file.ext) = 0 THEN "NoLoaderForExtension"
    ELSE IF file.decoded = None THEN "Other"
    ELSE "Ok"

\* ------------------------------------------------------------------- Init

\* AssetStorage::new
StorageNew ==
    /\ current_id = 0
    /\ loaded_assets = << >>
    /\ removed_assets = << >>
    /\ handle_count = << >>
    /\ asset_loaders = << >>
    /\ channel = << >>
    /\ handles = [id \in Ids |-> 0]
    /\ fatal = FALSE
    /\ issued = << >>
    /\ evicted = {}
    /\ recent = [tag |-> "other", id |-> NoId]

\* SpecOrder's variables at rest
OrderIdle ==
    /\ queued = [handle_count |-> << >>, channel |-> << >>]
    /\ drained = [done |-> FALSE]

\* the path of a load_file call that was never made
NoFile == [name |-> None, exists |-> FALSE, is_file |-> FALSE, ext |-> None, decoded |-> None]

\* SpecLoad's variable at rest
LoadIdle ==
    last_load = [file |-> NoFile, called |-> << >>, result |-> None, error |-> None,
                 id |-> NoId, inner |-> None]

\* SpecManager's variables at rest
ManagerIdle ==
    /\ storages = << >>
    /\ register_ret = [ret |-> None]
    /\ stores = << >>
    /\ held = {}

\* SpecTick's variable at rest
RunnerIdle ==
    runner = [tick |-> 0, step |-> 0, todo |-> {}, log |-> << >>,
              pending |-> {}, active |-> {}]

\* SpecRender's variable at rest: Texture3dRenderer::new
RenderIdle == instances = {}

\* EventHandler::default, before any call
EventHandlerNew ==
    [pending |-> {}, active |-> {}, ran |-> << >>, got |-> [type |-> None, ret |-> None]]

\* SpecEvents' variable at rest
HandlerIdle == handler = EventHandlerNew

\* the threads that call into the storage, and the one that runs the pass
Workers == {"t1", "t2"}

Maintainer == "pass"

Threads == Workers \cup {Maintainer}

\* a thread outside every call
Outside == [at |-> "idle", id |-> NoId, asset |-> None]

\* RwLock::new: WRITER_BIT clear, no reader
Unlocked == [writer |-> None, readers |-> {}]

\* a worker whose loader has called nothing on the storage
NotReentered == [outer |-> Outside, ret |-> None]

\* SpecThreads' variables at rest
ThreadsIdle ==
    /\ lock = Unlocked
    /\ pc = [t \in Threads |-> Outside]
    /\ alive = TRUE
    /\ warned = 0
    /\ reentered = [t \in Workers |-> NotReentered]

Init ==
    /\ StorageNew
    /\ OrderIdle
    /\ LoadIdle
    /\ ManagerIdle
    /\ RunnerIdle
    /\ RenderIdle
    /\ HandlerIdle
    /\ ThreadsIdle

\* ---------------------------------------------------------------- actions

\* AssetStorageInner::insert_asset as both public entry points run it:
\* the id, the two map entries, then Handle::new's Increase.
InsertInner(asset) ==
    LET n == get_next(current_id)
    IN  /\ current_id' = n.next
        /\ loaded_assets' = MapInsert(loaded_assets, n.id, asset)
        /\ handle_count' = insert_count(handle_count, n.id)
        /\ channel' = send_increase(channel, n.id)
        /\ handles' = [handles EXCEPT ![n.id] = @ + 1]
        /\ issued' = Append(issued, n.id)
        /\ recent' = Remember("other", NoId)
        /\ UNCHANGED << removed_assets, asset_loaders, fatal, evicted >>

\* AssetStorage::insert_asset
InsertAsset ==
    /\ ~fatal
    /\ current_id < MaxIds
    /\ Len(channel) < MaxQueue
    /\ \E asset \in Assets : InsertInner(asset)
    /\ UNCHANGED aux

\* AssetStorage::load_file
LoadFile ==
    /\ ~fatal
    /\ \E file \in Files :
        LET outcome == load_outcome(asset_loaders, file)
        IN  IF outcome = "Ok"
            THEN /\ current_id < MaxIds
                 /\ Len(channel) < MaxQueue
                 /\ InsertInner(file.decoded)
                 /\ UNCHANGED aux
            ELSE UNCHANGED vars

\* AssetStorage::register_loader
RegisterLoader ==
    /\ ~fatal
    /\ Len(asset_loaders) < MaxLoaders
    /\ \E loader \in Loaders :
        /\ asset_loaders' = Append(asset_loaders, loader)
        /\ UNCHANGED << current_id, loaded_assets, removed_assets, handle_count,
                        channel, handles, fatal, issued, evicted, recent, aux >>

\* Handle::clone of a live handle
HandleClone ==
    /\ ~fatal
    /\ Len(channel) < MaxQueue
    /\ \E id \in Ids :
        /\ handles[id] > 0
        /\ handles[id] < MaxHandles
        /\ channel' = send_increase(channel, id)
        /\ handles' = [handles EXCEPT ![id] = @ + 1]
        /\ recent' = Remember("clone", id)
        /\ UNCHANGED << current_id, loaded_assets, removed_assets, handle_count,
                        asset_loaders, fatal, issued, evicted, aux >>

\* Handle::drop of a live handle
HandleDrop ==
    /\ ~fatal
    /\ Len(channel) < MaxQueue
    /\ \E id \in Ids :
        /\ handles[id] > 0
        /\ channel' = send_decrease(channel, id)
        /\ handles' = [handles EXCEPT ![id] = @ - 1]
        /\ recent' = Remember("drop", id)
        /\ UNCHANGED << current_id, loaded_assets, removed_assets, handle_count,
                        asset_loaders, fatal, issued, evicted, aux >>

\* AssetStorageInner::update_handles, the maintenance pass.  checked is the
\* build's overflow-checks setting, which only the step 0 - 1 reads.
UpdateHandles ==
    /\ ~fatal
    /\ \E checked \in BOOLEAN :
        LET u == update_handles(channel, handle_count, loaded_assets,
                                removed_assets, checked)
        IN  /\ channel' = u.channel
            /\ fatal' = u.fatal
            /\ removed_assets' = u.removed_assets
            /\ handle_count' = u.handle_count
            /\ loaded_assets' = u.loaded_assets
            /\ evicted' = evicted \cup ((DOMAIN loaded_assets) \ (DOMAIN u.loaded_assets))
            /\ recent' = Remember("pass", NoId)
            /\ UNCHANGED << current_id, asset_loaders, handles, issued, aux >>

Next ==
    \/ InsertAsset
    \/ LoadFile
    \/ RegisterLoader
    \/ HandleClone
    \/ HandleDrop
    \/ UpdateHandles

Spec == Init /\ [][Next]_vars

\* ------------------------------------------------------------- properties

\* the previous operation on the channel was a completed pass
AfterPass == recent.tag \in {"pass", "pass_pass", "clone_drop_pass"}

\* C1: no step, and so no maintenance pass, removes an id from the asset
\* mapping while at least one handle for that id exists when it runs.
C1_NoEvictionOfHeldId ==
    [][\A id \in DOMAIN loaded_assets :
          id \notin DOMAIN loaded_assets' => handles[id] = 0]_vars

\* A pass has just removed one id and kept another one that has a handle.
C1_Witness ==
    /\ AfterPass
    /\ removed_assets # << >>
    /\ \E id \in DOMAIN loaded_assets : handles[id] > 0

\* C2: a maintenance pass removes the data and the liveness entry of every
\* id of the mapping whose last handle has been dropped before it starts.
C2_PassRemovesUnheldIds ==
    [][UpdateHandles =>
          \A id \in DOMAIN loaded_assets :
              handles[id] = 0 =>
                  /\ id \notin DOMAIN loaded_assets'
                  /\ id \notin DOMAIN handle_count']_vars

\* A pass has just removed the one id whose handles were all dropped.
C2_Witness ==
    /\ AfterPass
    /\ \E id \in evicted :
          /\ removed_assets = << id >>
          /\ handles[id] = 0
          /\ id \notin DOMAIN loaded_assets
          /\ id \notin DOMAIN handle_count

\* C3: right after a maintenance pass every id of the mapping has a
\* liveness count equal to the number of its handles, which is at least 1,
\* and every issued id without handle is gone.
C3_CountIsHandlesAfterPass ==
    AfterPass =>
        /\ \A id \in DOMAIN loaded_assets :
              /\ id \in DOMAIN handle_count
              /\ handle_count[id] = handles[id]
              /\ handle_count[id] >= 1
        /\ \A id \in SeqToSet(issued) :
              handles[id] = 0 => id \notin DOMAIN loaded_assets

\* The scenario's middle: after a pass that removed nothing, id 0 is
\* present with one handle left and count 1.
C3_Witness ==
    /\ AfterPass
    /\ 0 \in DOMAIN loaded_assets
    /\ handles[0] = 1
    /\ handle_count[0] = 1
    /\ removed_assets = << >>

\* C4: an id a pass has evicted resolves to nothing in every later state.
C4_EvictedNeverResolves == \A id \in evicted : get_asset(id) = None

\* Id 0 has been evicted and id 1 inserted afterwards (no pass has counted
\* its first handle yet); id 0 still resolves to nothing.
C4_Witness ==
    /\ 0 \in evicted
    /\ 1 \in DOMAIN loaded_assets
    /\ handle_count[1] = 0
    /\ get_asset(0) = None
    /\ get_asset(1) # None

\* C5: the ids returned by the successful insert/load calls are strictly
\* increasing in call order, so none is issued twice.
C5_IdsStrictlyIncreasing ==
    \A i, j \in DOMAIN issued : i < j => issued[i] < issued[j]

\* The first id has been evicted, and the call after the eviction got
\* another id: its Increase is still the whole channel.
C5_Witness ==
    /\ Len(issued) = 2
    /\ issued[1] \in evicted
    /\ issued[2] # issued[1]
    /\ channel = << Increase(issued[2]) >>

\* C6: a pass that follows a pass with no handle created, cloned or dropped
\* in between finds the channel empty, leaves removed_assets empty and
\* leaves the mapping, the counts and the id generator as they were.
C6_SecondPassIsNoOp ==
    [][(AfterPass /\ UpdateHandles) =>
          /\ channel = << >>
          /\ channel' = << >>
          /\ removed_assets' = << >>
          /\ UNCHANGED << loaded_assets, handle_count, current_id >>]_vars

\* Two passes in a row have run, the first of which had evicted an id; an
\* asset is still held.
C6_Witness ==
    /\ recent.tag = "pass_pass"
    /\ evicted # {}
    /\ removed_assets = << >>
    /\ DOMAIN loaded_assets # {}

\* C7: for an id with a live handle, the pass that runs after a clone and
\* the drop of that clone keeps the id and leaves the mapping and the counts
\* the pass without the clone and the drop would have left.
C7_CloneDropIsNeutral ==
    \A id \in Ids :
        handles[id] > 0 =>
            \A checked \in BOOLEAN :
                LET with    == update_handles(
                                   Append(Append(channel, Increase(id)), Decrease(id)),
                                   handle_count, loaded_assets, removed_assets, checked)
                    without == update_handles(channel, handle_count, loaded_assets,
                                              removed_assets, checked)
                IN  /\ ~with.fatal
                    /\ id \in DOMAIN with.loaded_assets
                    /\ with.loaded_assets = without.loaded_assets
                    /\ with.handle_count = without.handle_count

\* A clone, the drop of it and a pass have run in a row; the id is present
\* and counted once per handle.
C7_Witness ==
    /\ recent.tag = "clone_drop_pass"
    /\ recent.id \in DOMAIN loaded_assets
    /\ handles[recent.id] >= 1
    /\ handle_count[recent.id] = handles[recent.id]

\* the signals of one kind for one id in a channel
Signals(q, kind, id) == Cardinality({i \in DOMAIN q : q[i] = [kind |-> kind, id |-> id]})

\* the count of id once every signal of q is applied
Reconciled(q, count, id) ==
    count[id] + Signals(q, "Increase", id) - Signals(q, "Decrease", id)

\* C8: a pass removes an id only if the count reconciled with every signal
\* it drains is 0, and keeps every id whose reconciled count is above 0.
C8_RemovedOnlyAtZero ==
    [][UpdateHandles =>
          \A id \in DOMAIN loaded_assets :
              /\ id \notin DOMAIN loaded_assets' =>
                     Reconciled(channel, handle_count, id) = 0
              /\ Reconciled(channel, handle_count, id) > 0 =>
                     /\ id \in DOMAIN loaded_assets'
                     /\ id \in DOMAIN handle_count']_vars

\* A pass has removed id 1 and kept id 0, whose reconciled count is 2.
C8_Witness ==
    /\ AfterPass
    /\ removed_assets = << 1 >>
    /\ 0 \in DOMAIN loaded_assets
    /\ handle_count[0] = 2

\* C9: a clone or a drop appends its one signal to the channel and leaves
\* the mapping, the counts, removed_assets, the generator and the loaders.
C9_CloneDropOnlySend ==
    [][(HandleClone \/ HandleDrop) =>
          /\ UNCHANGED << loaded_assets, handle_count, removed_assets,
                          current_id, asset_loaders >>
          /\ \E id \in Ids :
                \/ /\ handles'[id] = handles[id] + 1
                   /\ channel' = Append(channel, [kind |-> "Increase", id |-> id])
                \/ /\ handles'[id] = handles[id] - 1
                   /\ channel' = Append(channel, [kind |-> "Decrease", id |-> id])]_vars

\* The last handle of an id has been dropped right after a clone: both
\* signals wait in the channel and the asset is still in the mapping.
C9_Witness ==
    /\ recent.tag = "clone_drop"
    /\ handles[recent.id] = 1
    /\ Len(channel) >= 2
    /\ channel[Len(channel)] = Decrease(recent.id)
    /\ channel[Len(channel) - 1] = Increase(recent.id)
    /\ recent.id \in DOMAIN loaded_assets

\* C10: the ids with a liveness entry are the ids of the asset mapping.
C10_CountKeysAreAssetKeys == DOMAIN handle_count = DOMAIN loaded_assets

\* One id has been evicted and another is in both maps.
C10_Witness ==
    /\ evicted # {}
    /\ DOMAIN loaded_assets # {}
    /\ DOMAIN handle_count = DOMAIN loaded_assets
    /\ evicted \cap DOMAIN handle_count = {}

\* C11 as the specification words it: when insert_asset returns, the
\* liveness entry of the id it issued holds 1.
C11_CountOneOnReturn ==
    [][InsertAsset => handle_count'[current_id] = 1]_vars

\* C11: insert_asset succeeds whenever it is called; when it returns, the id
\* it issued is in the mapping with a liveness entry of 0, and the Increase
\* of the returned handle is the newest signal of the channel: the entry
\* becomes 1 only when a pass drains that signal.
C11_CountZeroIncreaseQueued ==
    [][InsertAsset =>
          /\ current_id \in DOMAIN loaded_assets'
          /\ handle_count'[current_id] = 0
          /\ channel' = Append(channel, Increase(current_id))
          /\ Reconciled(channel', handle_count', current_id) = 1
          /\ LET u == update_handles(channel', handle_count', loaded_assets',
                                     removed_assets', TRUE)
             IN  ~u.fatal /\ u.handle_count[current_id] = 1]_vars

\* insert_asset has just returned the handle of id 1: its entry holds 0 and
\* its Increase waits in the channel.
C11_Witness ==
    /\ Len(issued) = 2
    /\ issued[2] = 1
    /\ handles[1] = 1
    /\ handle_count[1] = 0
    /\ channel # << >>
    /\ channel[Len(channel)] = Increase(1)

\* ------------------------------------ SpecOrder: one pass, two deliveries

\* SpecOrder hands update_handles the same signals in two orders.  A signal
\* carries the handle that sent it, so that an order can be asked to keep
\* each handle's own Increase before its own Decrease.

\* the ids whose signals are interleaved
OrderIds == {0, 1}

\* a Handle value: the id it refers to and its number among that id's handles
HandleTags == OrderIds \X (1 .. MaxHandles)

\* the ReferenceCountSignal a handle sends, with its sender
Sent(kind, h) == [kind |-> kind, id |-> h[1], by |-> h]

SentSignals == {Sent(kind, h) : kind \in {"Increase", "Decrease"}, h \in HandleTags}

\* h is one of the handles count[id] counts: an earlier pass took its Increase
Counted(count, h) == h[2] <= count[h[1]]

\* q holds no signal twice, an Increase only of a handle not yet counted, and
\* a Decrease only of a counted handle or of one whose Increase is earlier in
\* q; an id entered with count 0 still has the Increase of its first handle
\* in q.
KeepsHandleOrder(q, count) ==
    /\ \A i, j \in DOMAIN q : q[i] = q[j] => i = j
    /\ \A i \in DOMAIN q :
          IF q[i].kind = "Increase"
          THEN ~Counted(count, q[i].by)
          ELSE \/ Counted(count, q[i].by)
               \/ \E j \in 1 .. (i - 1) : q[j] = Sent("Increase", q[i].by)
    /\ \A id \in OrderIds :
          count[id] = 0 => \E i \in DOMAIN q : q[i].kind = "Increase" /\ q[i].id = id

\* the channel contents of at most MaxQueue signals that keep handle order
OrderQueues(count) ==
    {q \in UNION {[1 .. n -> SentSignals] : n \in 0 .. MaxQueue} :
        KeepsHandleOrder(q, count)}

\* the orders of the signals of q that keep handle order
Orders(q, count) ==
    LET n     == Len(q)
        perms == {f \in [1 .. n -> 1 .. n] : \A i, j \in 1 .. n : f[i] = f[j] => i = j}
    IN  {p \in {[i \in 1 .. n |-> q[f[i]]] : f \in perms} : KeepsHandleOrder(p, count)}

\* the entry of id after the first n signals of q
Running(q, count, id, n) ==
    count[id]
    + Cardinality({i \in 1 .. n : q[i].kind = "Increase" /\ q[i].id = id})
    - Cardinality({i \in 1 .. n : q[i].kind = "Decrease" /\ q[i].id = id})

\* q is an order in which handles can send: a handle is cloned from a live
\* handle, so no Increase of an id comes after the Decrease that left the
\* id without a handle.
ClonedFromLive(q, count) ==
    \A i, j \in DOMAIN q :
        (i < j /\ q[i].kind = "Decrease" /\ q[j].kind = "Increase" /\ q[i].id = q[j].id)
            => Running(q, count, q[i].id, i) > 0

\* Spec's variables at rest
StorageIdle == StorageNew

InitOrder ==
    /\ StorageIdle
    /\ LoadIdle
    /\ ManagerIdle
    /\ RunnerIdle
    /\ RenderIdle
    /\ HandlerIdle
    /\ ThreadsIdle
    /\ drained = [done |-> FALSE]
    /\ \E count \in [OrderIds -> 0 .. MaxHandles] :
          \E q \in OrderQueues(count) :
              queued = [handle_count |-> count, channel |-> q]

\* update_handles run on the queued signals as they are and as delivered in
\* another order
DeliverPass ==
    /\ ~drained.done
    /\ \E delivered \in Orders(queued.channel, queued.handle_count), checked \in BOOLEAN :
          LET loaded == [id \in OrderIds |-> "lorem"]
              a == update_handles(queued.channel, queued.handle_count, loaded, << >>, checked)
              b == update_handles(delivered, queued.handle_count, loaded, << >>, checked)
          IN  drained' = [done |-> TRUE, delivered |-> delivered, a |-> a, b |-> b]
    /\ UNCHANGED << current_id, loaded_assets, removed_assets, handle_count,
                    asset_loaders, channel, handles, fatal, issued, evicted,
                    recent, queued, last_load, manager_vars, runner, instances, handler, thread_vars >>

NextOrder == DeliverPass

SpecOrder == InitOrder /\ [][NextOrder]_vars

MaxRegistered == 2

\* loaders::TextLoader, the AssetTypeLoader the plugin registers
StringLoader == [name |-> "loaders::TextLoader", extensions |-> {"txt"}]

\* the loader of textures
TextureLoader == [name |-> "TextureLoader", extensions |-> {"png", "jpg"}]

\* the loaders SpecLoad registers: two of them advertise "txt"
LoadLoaders == {TextLoader, StringLoader, TextureLoader}

\* the paths SpecLoad asks for: Files, and paths on which several checks
\* fail at once or a texture decodes
LoadFiles ==
    Files \cup
    { [name |-> "gone",       exists |-> FALSE, is_file |-> FALSE, ext |-> None,  decoded |-> None],
      [name |-> "gone.txt",   exists |-> FALSE, is_file |-> FALSE, ext |-> "txt", decoded |-> None],
      [name |-> "backup.txt", exists |-> TRUE,  is_file |-> FALSE, ext |-> "txt", decoded |-> None],
      [name |-> "icon.jpg",   exists |-> TRUE,  is_file |-> TRUE,  ext |-> "jpg", decoded |-> "icon"],
      [name |-> "scan.<FF>",  exists |-> TRUE,  is_file |-> TRUE,  ext |-> NonUtf8, decoded |-> None] }

\* the errors load_file returns from its own checks
CheckErrors == {"FileDoesNotExist", "IsNotFile", "InvalidExtension", "NoLoaderForExtension"}

\* A loader's own load: the decoded asset, or the error of the read.
own_load(loader, file) ==
    IF file.decoded = None
    THEN [ok |-> FALSE, asset |-> None, error |-> "InvalidData"]
    ELSE [ok |-> TRUE, asset |-> file.decoded, error |-> None]

\* whether the loader is an AssetTypeLoader, which is reached through the
\* blanket impl of AssetLoaderOuter
ViaOuter(loader) == loader = StringLoader

\* AssetLoaderOuter::load over an AssetTypeLoader: Ok(asset) => Ok(asset.into()),
\* Err(_) => todo!(), which panics
outer_load(r) ==
    IF r.ok THEN [result |-> "Ok", asset |-> r.asset, error |-> None]
    ELSE [result |-> "Panic", asset |-> None, error |-> None]

\* `loader.load_path(..)?` on a loader that implements load_path itself
direct_load(r) ==
    IF r.ok THEN [result |-> "Ok", asset |-> r.asset, error |-> None]
    ELSE [result |-> "Err", asset |-> None, error |-> r.error]

\* the call load_file makes on the loader it found
call_loader(loader, file) ==
    IF ViaOuter(loader) THEN outer_load(own_load(loader, file))
    ELSE direct_load(own_load(loader, file))

\* invoked that looks the loader up and runs it before the path is checked
invoked_before_checks(loaders, file) ==
    IF find_loader(loaders, file.ext) = 0 THEN << >>
    ELSE << find_loader(loaders, file.ext) >>

\* The loaders, by position in asset_loaders, whose load one load_file call
\* runs, in the order it runs them.
invoked(loaders, file) ==
    IF load_outcome(loaders, file) \in CheckErrors \cup {"Panic"} THEN << >>
    ELSE << find_loader(loaders, file.ext) >>

\* load_file that inserts an empty asset when the loader fails
load_file_default_on_error(loaders, file) ==
    LET calls == invoked(loaders, file)
    IN  IF calls = << >>
        THEN IF load_outcome(loaders, file) = "Panic"
             THEN [result |-> "Panic", called |-> calls, asset |-> None, error |-> None]
             ELSE [result |-> "Err", called |-> calls, asset |-> None,
                   error |-> load_outcome(loaders, file)]
        ELSE [result |-> "Ok", called |-> calls, error |-> None,
              asset |-> IF call_loader(loaders[calls[1]], file).result = "Ok"
                        THEN call_loader(loaders[calls[1]], file).asset ELSE ""]

\* AssetStorage::load_file up to its call of insert_asset: what it hands on
\* (result "Ok" and the asset), returns (result "Err" and the error) or
\* dies of (result "Panic"), and the loaders it ran.
load_file(loaders, file) ==
    LET calls == invoked(loaders, file)
    IN  IF calls = << >>
        THEN IF load_outcome(loaders, file) = "Panic"
             THEN [result |-> "Panic", called |-> calls, asset |-> None, error |-> None]
             ELSE [result |-> "Err", called |-> calls, asset |-> None,
                   error |-> load_outcome(loaders, file)]
        ELSE LET r == call_loader(loaders[calls[1]], file)
             IN  [result |-> r.result, called |-> calls, asset |-> r.asset,
                  error |-> r.error]

InitLoad ==
    /\ RunnerIdle
    /\ RenderIdle
    /\ HandlerIdle
    /\ ThreadsIdle
    /\ StorageNew
    /\ OrderIdle
    /\ LoadIdle
    /\ ManagerIdle

\* AssetStorage::register_loader, with SpecLoad's loaders
RegisterLoaderCall ==
    /\ ~fatal
    /\ Len(asset_loaders) < MaxRegistered
    /\ \E loader \in LoadLoaders :
        /\ asset_loaders' = Append(asset_loaders, loader)
        /\ UNCHANGED << current_id, loaded_assets, removed_assets, handle_count,
                        channel, handles, fatal, issued, evicted, recent, aux >>

\* AssetStorage::load_file, with what the caller sees of it
LoadFileCall ==
    /\ ~fatal
    /\ \E file \in LoadFiles :
        LET r == load_file(asset_loaders, file)
        IN  IF r.result = "Ok"
            THEN /\ current_id < MaxIds
                 /\ Len(channel) < MaxQueue
                 /\ InsertInner(r.asset)
                 /\ last_load' = [file |-> file, called |-> r.called, result |-> "Ok",
                                  error |-> None, id |-> current_id, inner |-> r.asset]
            ELSE /\ fatal' = (r.result = "Panic")
                 /\ last_load' = [file |-> file, called |-> r.called, result |-> r.result,
                                  error |-> r.error, id |-> NoId, inner |-> None]
                 /\ UNCHANGED << current_id, loaded_assets, removed_assets, handle_count,
                                 asset_loaders, channel, handles, issued, evicted, recent >>
    /\ UNCHANGED << order_vars, manager_vars, runner, instances, handler, thread_vars >>

NextLoad ==
    \/ RegisterLoaderCall
    \/ LoadFileCall
    \/ HandleDrop
    \/ UpdateHandles

SpecLoad == InitLoad /\ [][NextLoad]_vars

\* the path is absent, or no regular file, or without extension, or the
\* loaders hold none for its extension
CheckFails(loaders, file) ==
    \/ ~file.exists
    \/ ~file.is_file
    \/ file.ext = None
    \/ \A i \in DOMAIN loaders : file.ext \notin loaders[i].extensions

\* the path fails a check, or its contents do not decode
LoadFails(loaders, file) == CheckFails(loaders, file) \/ file.decoded = None

\* C13: a load_file call that fails, for a path check, the extension, the
\* lack of a loader or the loader's error, hands out no handle and leaves
\* the mapping, the counts, the id generator, the channel, removed_assets
\* and the loaders as they were: the same request meets the same storage.
C13_FailedLoadChangesNothing ==
    [][(LoadFileCall /\ LoadFails(asset_loaders, last_load'.file)) =>
          /\ last_load'.result # "Ok"
          /\ last_load'.id = NoId
          /\ UNCHANGED << loaded_assets, handle_count, current_id, channel,
                          removed_assets, asset_loaders, handles, issued >>
          /\ invoked(asset_loaders', last_load'.file) = last_load'.called]_vars

\* The loader found for a path returned an error, on a storage that holds
\* an asset and a queued signal.
C13_Witness ==
    /\ last_load.result = "Err"
    /\ last_load.error = "InvalidData"
    /\ last_load.called # << >>
    /\ DOMAIN loaded_assets # {}
    /\ channel # << >>

\* C14: a load_file call that returns FileDoesNotExist, IsNotFile,
\* InvalidExtension or NoLoaderForExtension has run no loader, and a call on
\* a path that fails one of these checks ends with no loader run.
C14_ChecksBeforeAnyLoader ==
    [][LoadFileCall =>
          ((last_load'.error \in CheckErrors \/ CheckFails(asset_loaders, last_load'.file))
              => /\ last_load'.called = << >>
                 /\ last_load'.result # "Ok")]_vars

\* A call on an absent path whose extension a registered loader advertises:
\* FileDoesNotExist came back and the loader did not run.
C14_Witness ==
    /\ last_load.file.name = "gone.txt"
    /\ last_load.error = "FileDoesNotExist"
    /\ last_load.called = << >>
    /\ find_loader(asset_loaders, "txt") # 0

\* the four errors of load_file's checks in the order of C15, and whether
\* the condition of each holds of a path
ErrorOrder ==
    << "FileDoesNotExist", "IsNotFile", "InvalidExtension", "NoLoaderForExtension" >>

ConditionHolds(loaders, file) ==
    << ~file.exists,
       file.exists /\ ~file.is_file,
       file.ext = None,
       \A i \in DOMAIN loaders : file.ext \notin loaders[i].extensions >>

\* C15: load_file returns FileDoesNotExist for an absent path, IsNotFile for
\* a directory, InvalidExtension for a file without extension and
\* NoLoaderForExtension when no registered loader advertises the extension;
\* when several of these conditions hold it returns the first of them, and
\* it returns it as an error value, without panic.
C15_FirstFailingCheckIsReturned ==
    [][LoadFileCall =>
          \A k \in 1 .. 4 :
              (/\ ConditionHolds(asset_loaders, last_load'.file)[k]
               /\ \A j \in 1 .. (k - 1) : ~ConditionHolds(asset_loaders, last_load'.file)[j])
                  => /\ last_load'.result = "Err"
                     /\ last_load'.error = ErrorOrder[k]
                     /\ ~fatal']_vars

\* C16: a load_file call that runs a loader runs exactly one, the earliest
\* registered whose extensions contain the path's extension, and it runs
\* one whenever the path passes the checks; a register_loader call leaves
\* every path that was served by a loader served by that same loader.
C16_FirstRegisteredLoaderServes ==
    [][/\ LoadFileCall =>
             LET file == last_load'.file
                 run  == last_load'.called
             IN  /\ run # << >> =>
                        /\ Len(run) = 1
                        /\ run[1] \in DOMAIN asset_loaders
                        /\ file.ext \in asset_loaders[run[1]].extensions
                        /\ \A j \in 1 .. (run[1] - 1) :
                               file.ext \notin asset_loaders[j].extensions
                 /\ (~CheckFails(asset_loaders, file) /\ file.ext # NonUtf8) => run # << >>
       /\ RegisterLoaderCall =>
             \A file \in LoadFiles :
                 invoked(asset_loaders, file) # << >> =>
                     invoked(asset_loaders', file) = invoked(asset_loaders, file)]_vars

\* Two different loaders that both advertise "txt" are registered, and a
\* call on a "txt" file ran the first of them.
C16_Witness ==
    /\ Len(asset_loaders) = 2
    /\ asset_loaders[1] # asset_loaders[2]
    /\ "txt" \in asset_loaders[1].extensions \cap asset_loaders[2].extensions
    /\ last_load.file.ext = "txt"
    /\ last_load.called = << 1 >>

\* C17: a load_file call that succeeds returns a handle of an id no earlier
\* call returned, whose asset is what the loader decoded from the file; the
\* storage resolves the id to that asset, and the entry, the signal and the
\* generator are those of insert_asset on that asset.
C17_LoadedIsInsertedLoaderOutput ==
    [][(LoadFileCall /\ last_load'.result = "Ok") =>
          LET id == last_load'.id
          IN  /\ id \notin SeqToSet(issued)
              /\ id \notin DOMAIN loaded_assets
              /\ id \notin evicted
              /\ last_load'.file.decoded # None
              /\ last_load'.inner = last_load'.file.decoded
              /\ id \in DOMAIN loaded_assets'
              /\ loaded_assets'[id] = last_load'.inner
              /\ handle_count' = MapInsert(handle_count, id, 0)
              /\ channel' = Append(channel, Increase(id))
              /\ current_id' = id + 1
              /\ handles'[id] = 1]_vars

\* The second load of the run decoded "icon": its handle has id 1, the
\* storage resolves 1 to "icon", and id 0 was evicted before.
C17_Witness ==
    /\ last_load.result = "Ok"
    /\ last_load.id = 1
    /\ last_load.inner = "icon"
    /\ get_asset(1) = "icon"
    /\ 0 \in evicted

\* C18: when the loader a load_file call runs returns an error, the call
\* returns that error, unchanged, as an error value, and does not panic.
C18_LoaderErrorIsReturned ==
    [][(LoadFileCall /\ last_load'.called # << >>) =>
          LET r == own_load(asset_loaders[last_load'.called[1]], last_load'.file)
          IN  ~r.ok => /\ last_load'.result = "Err"
                       /\ last_load'.error = r.error
                       /\ ~fatal']_vars

\* ------------------------------- SpecManager: the storages of a manager

\* SpecManager runs several AssetStorage values, registers them with an
\* AssetManager and lets the manager run their passes.  A model asset owns
\* a handle of a texture asset (Mesh::material), which is dropped with the
\* model when the model's storage removes it.

\* how many assets one storage of SpecManager is given
MaxManagedIds == 1

\* how many signals the application puts on one channel between two passes
MaxManagedQueue == 2

\* the asset types, standing for their TypeId
AssetTypes == {"Texture", "ModelData"}

\* the AssetStorage values: two for textures, one for models
Cells ==
    { [type |-> "Texture", n |-> 1], [type |-> "Texture", n |-> 2],
      [type |-> "ModelData", n |-> 1] }

\* the material of an asset that owns no handle
NoMaterial == [cell |-> [type |-> None, n |-> 0], id |-> NoId]

\* AssetStorage::new
StoreNew ==
    [ current_id |-> 0, loaded_assets |-> << >>, handle_count |-> << >>,
      channel |-> << >>, removed_assets |-> << >>, fatal |-> FALSE ]

\* AssetStorageInner::insert_asset on the fields of one storage
store_insert(s, data) ==
    LET n == get_next(s.current_id)
    IN  [ s EXCEPT !.current_id = n.next,
                   !.loaded_assets = MapInsert(s.loaded_assets, n.id, data),
                   !.handle_count = insert_count(s.handle_count, n.id),
                   !.channel = send_increase(s.channel, n.id) ]

\* register_storage that lets the later registration replace the earlier
register_storage_replace(map, type, cell) ==
    [ storages |-> MapInsert(map, type, cell),
      ret |-> IF type \in DOMAIN map THEN "Err" ELSE "Ok" ]

\* AssetManager::register_storage
register_storage(map, type, cell) ==
    IF type \in DOMAIN map
    THEN [storages |-> map, ret |-> "Err"]
    ELSE [storages |-> MapInsert(map, type, cell), ret |-> "Ok"]

\* The handles owned by the assets a pass removes from loaded, in the order
\* of removal: they are dropped with their asset.
RECURSIVE dropped_with(_, _)
dropped_with(loaded, removed) ==
    IF removed = << >> THEN << >>
    ELSE LET id   == Head(removed)
             rest == dropped_with(MapRemove(loaded, id), Tail(removed))
         IN  IF id \in DOMAIN loaded /\ loaded[id].material # NoMaterial
             THEN << loaded[id].material >> \o rest
             ELSE rest

\* Handle::drop of each of these handles, on the channel of its storage
RECURSIVE send_drops(_, _)
send_drops(st, dropped) ==
    IF dropped = << >> THEN st
    ELSE send_drops(
             [st EXCEPT ![Head(dropped).cell].channel = send_decrease(@, Head(dropped).id)],
             Tail(dropped))

\* AssetStorageAccess::update_handles on one storage: its pass, and the
\* drops of the handles its removed assets owned
visit(st, cell) ==
    LET s == st[cell]
        u == update_handles(s.channel, s.handle_count, s.loaded_assets,
                            s.removed_assets, TRUE)
    IN  send_drops(
            [st EXCEPT ![cell] =
                [ current_id |-> s.current_id, loaded_assets |-> u.loaded_assets,
                  handle_count |-> u.handle_count, channel |-> u.channel,
                  removed_assets |-> u.removed_assets, fatal |-> s.fatal \/ u.fatal ]],
            dropped_with(s.loaded_assets, u.removed_assets))

\* visit_all that returns after the first storage
visit_all_first_only(st, map, order) ==
    IF order = << >> THEN st ELSE visit(st, map[Head(order)])

\* visit_all that also runs the pass of the storages nobody registered
visit_all_every_storage(st, map, order) ==
    visit(visit(visit(st, [type |-> "Texture", n |-> 1]),
                [type |-> "Texture", n |-> 2]),
          [type |-> "ModelData", n |-> 1])

\* AssetManager::update_handles: the storages of the map, one after the
\* other in the order the iteration yields their keys
RECURSIVE visit_all(_, _, _)
visit_all(st, map, order) ==
    IF order = << >> THEN st
    ELSE visit_all(visit(st, map[Head(order)]), map, Tail(order))

\* the orders in which HashMap::iter_mut can yield the keys of map
VisitOrders(map) ==
    LET n == Cardinality(DOMAIN map)
    IN  {order \in [1 .. n -> DOMAIN map] : \A i, j \in 1 .. n : order[i] = order[j] => i = j}

InitManager ==
    /\ RunnerIdle
    /\ RenderIdle
    /\ HandlerIdle
    /\ ThreadsIdle
    /\ StorageIdle
    /\ OrderIdle
    /\ LoadIdle
    /\ storages = << >>
    /\ register_ret = [ret |-> None]
    /\ stores = [cell \in Cells |-> StoreNew]
    /\ held = {}

\* what SpecManager's actions leave alone
ManagerFrame ==
    UNCHANGED << current_id, loaded_assets, removed_assets, handle_count,
                 asset_loaders, channel, handles, fatal, issued, evicted, recent,
                 order_vars, last_load, runner, instances, handler, thread_vars >>

\* AssetManager::register_storage
RegisterStorage ==
    /\ \E cell \in Cells :
          LET r == register_storage(storages, cell.type, cell)
          IN  /\ storages' = r.storages
              /\ register_ret' = [type |-> cell.type, cell |-> cell, ret |-> r.ret]
    /\ UNCHANGED << stores, held >>
    /\ ManagerFrame

\* AssetStorage::insert_asset of a texture
InsertTexture ==
    /\ \E cell \in Cells :
          /\ cell.type = "Texture"
          /\ stores[cell].current_id < MaxManagedIds
          /\ Len(stores[cell].channel) < MaxManagedQueue
          /\ stores' = [stores EXCEPT ![cell] = store_insert(@, [material |-> NoMaterial])]
          /\ held' = held \cup {[cell |-> cell, id |-> stores[cell].current_id]}
    /\ UNCHANGED << storages, register_ret >>
    /\ ManagerFrame

\* AssetStorage::insert_asset of a model whose mesh gets a clone of a
\* texture handle the application holds
InsertModel ==
    /\ \E cell \in Cells, texture \in held :
          /\ cell.type = "ModelData"
          /\ texture.cell.type = "Texture"
          /\ stores[cell].current_id < MaxManagedIds
          /\ Len(stores[cell].channel) < MaxManagedQueue
          /\ Len(stores[texture.cell].channel) < MaxManagedQueue
          /\ stores' = [stores EXCEPT
                           ![texture.cell].channel = send_increase(@, texture.id),
                           ![cell] = store_insert(@, [material |-> texture])]
          /\ held' = held \cup {[cell |-> cell, id |-> stores[cell].current_id]}
    /\ UNCHANGED << storages, register_ret >>
    /\ ManagerFrame

\* Handle::drop of a handle the application holds
DropHeld ==
    /\ \E h \in held :
          /\ Len(stores[h.cell].channel) < MaxManagedQueue
          /\ stores' = [stores EXCEPT ![h.cell].channel = send_decrease(@, h.id)]
          /\ held' = held \ {h}
    /\ UNCHANGED << storages, register_ret >>
    /\ ManagerFrame

\* AssetManager::update_handles
RunMaintenanceAll ==
    /\ \E order \in VisitOrders(storages) :
          stores' = visit_all(stores, storages, order)
    /\ UNCHANGED << storages, register_ret, held >>
    /\ ManagerFrame

NextManager ==
    \/ RegisterStorage
    \/ InsertTexture
    \/ InsertModel
    \/ DropHeld
    \/ RunMaintenanceAll

SpecManager == InitManager /\ [][NextManager]_vars

\* C19: a register_storage call for a type that has a storage returns an
\* error and leaves the map as it was, the first storage still in place; a
\* call for a type without storage succeeds and enters the storage; the map
\* holds one storage per type.
C19_OneStoragePerType ==
    [][RegisterStorage =>
          LET type == register_ret'.type
              cell == register_ret'.cell
          IN  /\ type \in DOMAIN storages =>
                    /\ register_ret'.ret = "Err"
                    /\ storages' = storages
                    /\ storages'[type] = storages[type]
              /\ type \notin DOMAIN storages =>
                    /\ register_ret'.ret = "Ok"
                    /\ DOMAIN storages' = DOMAIN storages \cup {type}
                    /\ storages'[type] = cell
                    /\ \A t \in DOMAIN storages : storages'[t] = storages[t]]_vars

\* The second texture storage was refused and the first is still the one
\* registered for textures.
C19_Witness ==
    /\ register_ret.ret = "Err"
    /\ register_ret.cell = [type |-> "Texture", n |-> 2]
    /\ "Texture" \in DOMAIN storages
    /\ storages["Texture"] = [type |-> "Texture", n |-> 1]

\* the asset mapping and the liveness counts of every storage
Outcome(st) ==
    [cell \in Cells |->
        [loaded_assets |-> st[cell].loaded_assets, handle_count |-> st[cell].handle_count]]

\* the count of an id of a storage once the signals on its channel are
\* applied; 0 for an id the storage has removed
ReconciledAfter(st, cell, id) ==
    IF id \in DOMAIN st[cell].handle_count
    THEN Reconciled(st[cell].channel, st[cell].handle_count, id)
    ELSE 0

\* the passes that lead from stores to st remove an asset that owns a
\* handle of a registered storage
RemovesOwner(st) ==
    \E cell \in Cells :
        \E id \in (DOMAIN stores[cell].loaded_assets) \ (DOMAIN st[cell].loaded_assets) :
            /\ stores[cell].loaded_assets[id].material # NoMaterial
            /\ \E type \in DOMAIN storages :
                   storages[type] = stores[cell].loaded_assets[id].material.cell

\* C20 as the specification words it: every two visiting orders of
\* AssetManager::update_handles leave every storage with the same mapping
\* and the same counts, asset-owned handles included.
C20_AnyVisitOrderSameOutcome ==
    \A o1, o2 \in VisitOrders(storages) :
        Outcome(visit_all(stores, storages, o1)) = Outcome(visit_all(stores, storages, o2))

\* C20: every two visiting orders of AssetManager::update_handles leave
\* every storage with the same mapping and the same counts when the call
\* removes no asset that owns a handle of a registered storage; when it
\* removes one, the orders agree on the counts reconciled with the signals
\* left on the channels.  No order makes a pass panic.
C20_VisitOrderUpToQueuedDrops ==
    \A o1, o2 \in VisitOrders(storages) :
        LET a == visit_all(stores, storages, o1)
            b == visit_all(stores, storages, o2)
        IN  /\ \A cell \in Cells : ~a[cell].fatal /\ ~b[cell].fatal
            /\ \A cell \in Cells :
                   \A id \in DOMAIN stores[cell].loaded_assets :
                       ReconciledAfter(a, cell, id) = ReconciledAfter(b, cell, id)
            /\ ~RemovesOwner(a) => Outcome(a) = Outcome(b)

\* AssetManager::update_handles has visited the texture storage before the
\* model storage: the model is removed, and the Decrease of the handle it
\* owned waits on the channel of the texture, which is still counted once.
C20_Witness ==
    /\ DOMAIN storages = AssetTypes
    /\ storages["Texture"] = [type |-> "Texture", n |-> 1]
    /\ stores[[type |-> "ModelData", n |-> 1]].removed_assets = << 0 >>
    /\ 0 \in DOMAIN stores[[type |-> "Texture", n |-> 1]].handle_count
    /\ stores[[type |-> "Texture", n |-> 1]].handle_count[0] = 1
    /\ stores[[type |-> "Texture", n |-> 1]].channel = << Decrease(0) >>

\* ------------------------------------------------------- the runner's tick

\* how many ticks one run of the runner takes
MaxTicks == 2

\* RunnerInner::tick: the steps of one tick, in the order of its statements
TickOrder == << "First", "activate_events", "Update", "Render", "Last" >>

\* SubStages, in the order WorkloadBuilder::build chains them
SubOrder == << "First", "Pre", "Main", "Post", "Last" >>

SubIndex(sub) == CHOOSE i \in 1 .. Len(SubOrder) : SubOrder[i] = sub

\* The systems the default plugins add to the stages of a tick.
Systems ==
    { [name |-> "sys_update_time",             stage |-> "First",  sub |-> "Main"],
      [name |-> "sys_prep_lighting",           stage |-> "Update", sub |-> "Last"],
      [name |-> "sys_prep_text",               stage |-> "Update", sub |-> "Last"],
      [name |-> "sys_finish_main_render_pass", stage |-> "Render", sub |-> "Post"],
      [name |-> "sys_update_storage",          stage |-> "Last",   sub |-> "Main"],
      [name |-> "sys_reset_input",             stage |-> "Last",   sub |-> "Main"],
      [name |-> "sys_trim_text_pipeline",      stage |-> "Last",   sub |-> "Main"] }

\* the events a window event queues, and the ones with a subscribed workload
Events == {"WindowResizeEvent"}

event_subscribers == {"WindowResizeEvent"}

\* the systems of the workloads subscribed to a set of events, as they run
RECURSIVE ran_for(_)
ran_for(events) ==
    IF events = {}
      THEN << >>
      ELSE LET e == CHOOSE x \in events : TRUE
           IN  << [tick |-> runner.tick + 1, step |-> 2, sys |-> "sys_resize_text_pipeline"] >>
                 \o ran_for(events \ {e})

\* every system runs in every stage
workload_everything(stage) == Systems

\* the workload WorkloadBuilder::build adds to the world for a stage
workload(stage) == {s \in Systems : s.stage = stage}

\* the systems of a running workload that may run next: the sub-stages run
\* in order, the systems of one sub-stage in any order
ready(todo) == {s \in todo : \A o \in todo : SubIndex(s.sub) <= SubIndex(o.sub)}

Ran(step, sys) == [tick |-> runner.tick + 1, step |-> step, sys |-> sys]

InitTick ==
    /\ StorageIdle
    /\ OrderIdle
    /\ LoadIdle
    /\ ManagerIdle
    /\ RunnerIdle
    /\ RenderIdle
    /\ HandlerIdle
    /\ ThreadsIdle

TickFrame ==
    UNCHANGED << current_id, loaded_assets, removed_assets, handle_count,
                 asset_loaders, channel, handles, fatal, issued, evicted, recent,
                 order_vars, last_load, manager_vars, instances, handler, thread_vars >>

\* WindowEvent::Resized between two ticks: sys_resize queues the event
Resized ==
    /\ runner.step = 0
    /\ runner.tick < MaxTicks
    /\ \E e \in Events : runner' = [runner EXCEPT !.pending = @ \cup {e}]
    /\ TickFrame

\* WindowEvent::RedrawRequested: tick begins with the workload of First
RedrawRequested ==
    /\ runner.step = 0
    /\ runner.tick < MaxTicks
    /\ runner' = [runner EXCEPT !.step = 1, !.todo = workload(TickOrder[1])]
    /\ TickFrame

\* One system of the running workload runs; after the last one tick goes on
\* to its next statement, and after the last statement it returns.
run_system(step) ==
    /\ runner.step = step
    /\ \E s \in ready(runner.todo) :
          LET left == runner.todo \ {s}
              log  == Append(runner.log, Ran(step, s.name))
          IN  runner' =
                IF left # {}
                  THEN [runner EXCEPT !.todo = left, !.log = log]
                  ELSE IF step = Len(TickOrder)
                         THEN [runner EXCEPT !.tick = @ + 1, !.step = 0,
                                             !.todo = {}, !.log = log]
                         ELSE [runner EXCEPT !.step = step + 1, !.log = log,
                                             !.todo = IF TickOrder[step + 1] = "activate_events"
                                                        THEN {}
                                                        ELSE workload(TickOrder[step + 1])]
    /\ TickFrame

RunFirst == run_system(1)

\* activate_events: the pending events become the active ones and the
\* workloads subscribed to them run
ActivateEvents ==
    /\ runner.step = 2
    /\ runner' = [runner EXCEPT
                    !.step = 3,
                    !.todo = workload(TickOrder[3]),
                    !.active = runner.pending,
                    !.pending = {},
                    !.log = Append(@, Ran(2, "activate_events"))
                              \o ran_for(runner.pending \cap event_subscribers)]
    /\ TickFrame

RunUpdate == run_system(3)

RunRender == run_system(4)

RunLast == run_system(5)

NextTick ==
    \/ Resized
    \/ RedrawRequested
    \/ RunFirst
    \/ ActivateEvents
    \/ RunUpdate
    \/ RunRender
    \/ RunLast

SpecTick == InitTick /\ [][NextTick]_vars

\* the positions of the log where the maintenance pass ran
PassAt == {i \in DOMAIN runner.log : runner.log[i].sys = "sys_update_storage"}

\* the ticks that have returned, and the ones that have begun
TicksDone == 1 .. runner.tick

TicksBegun == {runner.log[i].tick : i \in DOMAIN runner.log}

\* C21: in every tick the steps run in the order First, event activation,
\* Update, Render, Last, and the maintenance pass runs exactly once per tick,
\* in stage Last, after the First/Update/Render work of that tick and before
\* any work of the next tick.
C21_PassOncePerTickInLast ==
    LET log == runner.log IN
    /\ \A i, j \in DOMAIN log :
          i < j => \/ log[i].tick < log[j].tick
                   \/ log[i].tick = log[j].tick /\ log[i].step <= log[j].step
    /\ \A t \in TicksDone : {log[i].step : i \in {k \in DOMAIN log : log[k].tick = t}}
                              = DOMAIN TickOrder
    /\ \A t \in TicksBegun : t - 1 \in TicksDone \cup {0}
    /\ \A t \in TicksDone : Cardinality({i \in PassAt : log[i].tick = t}) = 1
    /\ \A t \in TicksBegun : Cardinality({i \in PassAt : log[i].tick = t}) <= 1
    /\ \A i \in PassAt :
          /\ TickOrder[log[i].step] = "Last"
          /\ \A j \in DOMAIN log :
                /\ (log[j].tick = log[i].tick /\ log[j].step < log[i].step) => j < i
                /\ log[j].tick > log[i].tick => j > i

\* the second tick is at work after the pass of the first one
C21_Witness ==
    /\ runner.tick = 1
    /\ runner.step = 3
    /\ \E i \in PassAt : runner.log[i].tick = 1
    /\ \E j \in DOMAIN runner.log : runner.log[j].tick = 2 /\ runner.log[j].step = 1

\* ------------------------------------------- one pass over any queue at all

\* the ids of the signals and of the liveness entries a pass is handed
DrainIds == {0, 1}

DrainSignals == {Increase(id) : id \in DrainIds} \cup {Decrease(id) : id \in DrainIds}

\* A storage as a pass may be handed it: liveness entries for some of the
\* ids, and a queue of signals for any of them.
InitDrain ==
    /\ StorageIdle
    /\ LoadIdle
    /\ ManagerIdle
    /\ RunnerIdle
    /\ RenderIdle
    /\ HandlerIdle
    /\ ThreadsIdle
    /\ drained = [done |-> FALSE]
    /\ \E known \in SUBSET DrainIds :
          \E count \in [known -> 0 .. MaxHandles] :
              \E q \in UNION {[1 .. n -> DrainSignals] : n \in 0 .. MaxQueue} :
                  queued = [handle_count |-> count, channel |-> q]

\* update_handles run on the queued signals
DrainPass ==
    /\ ~drained.done
    /\ \E checked \in BOOLEAN :
          LET loaded == [id \in DOMAIN queued.handle_count |-> "lorem"]
          IN  drained' = [done |-> TRUE, checked |-> checked, loaded |-> loaded,
                          a |-> update_handles(queued.channel, queued.handle_count,
                                               loaded, << >>, checked)]
    /\ UNCHANGED << current_id, loaded_assets, removed_assets, handle_count,
                    asset_loaders, channel, handles, fatal, issued, evicted,
                    recent, queued, last_load, manager_vars, runner, instances, handler, thread_vars >>

NextDrain == DrainPass

SpecDrain == InitDrain /\ [][NextDrain]_vars

\* the first signal of q for an id without liveness entry
FirstUnknown(q, count) ==
    {i \in DOMAIN q : /\ q[i].id \notin DOMAIN count
                      /\ \A j \in 1 .. (i - 1) : q[j].id \in DOMAIN count}

\* a Decrease before position i meets the count 0
Underflow(q, count, i) ==
    \E j \in 1 .. (i - 1) : /\ q[j].kind = "Decrease"
                            /\ Running(q, count, q[j].id, j - 1) = 0

\* C25: when the pass drains an Increase or a Decrease for an id that has no
\* liveness entry, it aborts fatally at that signal: the signal is taken, no
\* entry is created for the unknown id, no later signal of the queue is
\* applied, and nothing is removed.
C25_UnknownIdAbortsPass ==
    drained.done =>
        LET q == queued.channel
            count == queued.handle_count
            a == drained.a
        IN  \A i \in FirstUnknown(q, count) :
                ~(drained.checked /\ Underflow(q, count, i)) =>
                    /\ a.fatal
                    /\ a.channel = SubSeq(q, i + 1, Len(q))
                    /\ DOMAIN a.handle_count = DOMAIN count
                    /\ \A id \in DOMAIN count :
                          a.handle_count[id] = Running(q, count, id, i - 1)
                    /\ a.loaded_assets = drained.loaded

\* an Increase for an unknown id between two signals for a known one
C25_Witness ==
    /\ drained.done
    /\ drained.a.fatal
    /\ queued.handle_count = (0 :> 1)
    /\ queued.channel = << Increase(0), Increase(1), Decrease(0) >>

\* --------------------------------------------------------- handle equality

\* the Handle insert_asset returns for id while the asset is loaded
HandleOf(id) ==
    [handle_id |-> [id |-> id], sender |-> "sender", asset |-> loaded_assets[id]]

\* Handle::clone: the same id, a clone of the sender, the same shared data
clone(h) == [handle_id |-> h.handle_id, sender |-> h.sender, asset |-> h.asset]

\* equality of handles taken as equality of their data
eq_by_data(a, b) == a.asset = b.asset

\* PartialEq for Handle
eq(a, b) == a.handle_id.id = b.handle_id.id

\* the calls of insert_asset whose handles still exist
LiveCalls == {k \in DOMAIN issued : handles[issued[k]] > 0 /\ issued[k] \in DOMAIN loaded_assets}

\* C28: handle equality is equality of ids: a handle equals each of its
\* clones, and the handles of two different insert/load calls on the same
\* storage are never equal, even when their data are equal.
C28_HandleEqualityIsIdEquality ==
    \A k1, k2 \in LiveCalls :
        LET h1 == HandleOf(issued[k1])
            h2 == HandleOf(issued[k2])
        IN  /\ eq(h1, clone(h1))
            /\ eq(clone(h1), h1)
            /\ eq(clone(h1), clone(clone(h1)))
            /\ k1 # k2 => ~eq(h1, h2) /\ ~eq(clone(h1), h2)

\* two calls returned handles of equal data, and one of them has a clone
C28_Witness ==
    /\ {1, 2} \subseteq LiveCalls
    /\ handles[issued[1]] = 2
    /\ HandleOf(issued[1]).asset = HandleOf(issued[2]).asset

\* ---------------------------------------------------- threads and the lock

\* how many ids the threads' insert and load calls issue
MaxThreadIds == 1

\* how many Handle values for one id the threads keep alive at once
MaxThreadHandles == 2

\* how many signals clone and drop leave in the channel at once
MaxThreadQueue == 2

ThreadIds == 0 .. (MaxThreadIds - 1)

\* the paths the threads load: one the loader decodes, one it rejects
ThreadFiles == {f \in Files : f.name \in {"ipsum.txt", "broken.txt"}}

\* lock_shared on a lock no thread may share
can_lock_shared_alone(l) == l.writer = None /\ l.readers = {}

\* RwLock::read can take the lock: parking_lot lets no new reader in while
\* WRITER_BIT is set, whether the writer holds the lock or waits for it
can_lock_shared(l) == l.writer = None

lock_shared(l, t) == [l EXCEPT !.readers = @ \cup {t}]

\* a read guard that stays after its drop
unlock_shared_kept(l, t) == l

\* the drop of a read guard
unlock_shared(l, t) == [l EXCEPT !.readers = @ \ {t}]

\* a write lock that a second writer can take
can_lock_exclusive_always(l) == TRUE

\* RwLock::write can set WRITER_BIT
can_lock_exclusive(l) == l.writer = None

lock_exclusive(l, t) == [l EXCEPT !.writer = t]

\* a write lock granted over a read guard of the same thread
granted_over_own_guard(l, t) == l.writer = t /\ l.readers \subseteq {t}

\* RwLock::write returns: WRITER_BIT is t's and the readers have left
granted(l, t) == l.writer = t /\ l.readers = {}

\* the drop of a write guard
unlock_exclusive(l) == [l EXCEPT !.writer = None]

RECURSIVE total(_, _)
total(hs, ids) ==
    IF ids = {} THEN 0
    ELSE LET id == CHOOSE x \in ids : TRUE IN hs[id] + total(hs, ids \ {id})

\* the sending ends that only the handles own
senders_of_handles(hs, storage_alive) == total(hs, DOMAIN hs)

\* the Sender values that exist: AssetStorageInner::sender and one per Handle
senders(hs, storage_alive) ==
    (IF storage_alive THEN 1 ELSE 0) + total(hs, DOMAIN hs)

\* a try_recv that never finds a signal
try_recv_nothing(q, n_senders) == IF n_senders = 0 THEN "Disconnected" ELSE "Empty"

\* Receiver::try_recv
try_recv(q, n_senders) ==
    IF q # << >> THEN "Ok"
    ELSE IF n_senders = 0 THEN "Disconnected"
    ELSE "Empty"

\* the ids that calls under way will take from the generator
InFlight ==
    Cardinality({t \in Workers :
                    \/ pc[t].at \in {"insert_call", "insert_wait"}
                    \/ /\ pc[t].at \in {"load_call", "load_read", "nested_call", "nested_read"}
                       /\ pc[t].asset # None})

Goto(t, at, id, asset) == pc' = [pc EXCEPT ![t] = [at |-> at, id |-> id, asset |-> asset]]

StorageKept ==
    UNCHANGED << current_id, loaded_assets, removed_assets, handle_count,
                 asset_loaders, channel, handles, fatal, issued, evicted, recent >>

OthersKept ==
    UNCHANGED << order_vars, last_load, manager_vars, runner, instances, handler, reentered >>

\* AssetStorage::new and the registration of the text loader, before any
\* thread has the storage; ids are the ids the run may issue
ThreadsStart(ids) ==
    /\ current_id = 0
    /\ loaded_assets = << >>
    /\ removed_assets = << >>
    /\ handle_count = << >>
    /\ asset_loaders = << TextLoader >>
    /\ channel = << >>
    /\ handles = [id \in ids |-> 0]
    /\ fatal = FALSE
    /\ issued = << >>
    /\ evicted = {}
    /\ recent = [tag |-> "other", id |-> NoId]
    /\ OrderIdle
    /\ LoadIdle
    /\ ManagerIdle
    /\ RunnerIdle
    /\ RenderIdle
    /\ HandlerIdle
    /\ ThreadsIdle

InitThreads == ThreadsStart(ThreadIds)

\* a thread calls get_asset(id), or get_storage (no id)
GetCall(t) ==
    /\ ~fatal /\ alive
    /\ pc[t] = Outside
    /\ \E id \in (DOMAIN handles) \cup {NoId} : Goto(t, "get_call", id, None)
    /\ UNCHANGED << lock, alive, warned >>
    /\ StorageKept /\ OthersKept

\* self.inner.read() and the map of the guard: get_asset keeps the guard
\* only when the id is in loaded_assets, get_storage always
GetAcquire(t) ==
    /\ ~fatal
    /\ pc[t].at = "get_call"
    /\ can_lock_shared(lock)
    /\ IF pc[t].id = NoId
         THEN lock' = lock_shared(lock, t) /\ Goto(t, "get_hold", NoId, None)
         ELSE IF get_asset(pc[t].id) # None
                THEN /\ lock' = lock_shared(lock, t)
                     /\ Goto(t, "get_hold", pc[t].id, get_asset(pc[t].id))
                ELSE lock' = lock /\ pc' = [pc EXCEPT ![t] = Outside]
    /\ UNCHANGED << alive, warned >>
    /\ StorageKept /\ OthersKept

\* the caller drops the guard
GetRelease(t) ==
    /\ ~fatal
    /\ pc[t].at = "get_hold"
    /\ lock' = unlock_shared(lock, t)
    /\ pc' = [pc EXCEPT ![t] = Outside]
    /\ UNCHANGED << alive, warned >>
    /\ StorageKept /\ OthersKept

\* a thread calls insert_asset
InsertCall(t) ==
    /\ ~fatal /\ alive
    /\ pc[t] = Outside
    /\ current_id + InFlight \in DOMAIN handles
    /\ \E asset \in Assets : Goto(t, "insert_call", NoId, asset)
    /\ UNCHANGED << lock, alive, warned >>
    /\ StorageKept /\ OthersKept

\* a thread calls load_file on a path that passes the checks
LoadCall(t) ==
    /\ ~fatal /\ alive
    /\ pc[t] = Outside
    /\ \E file \in ThreadFiles :
          /\ load_outcome(asset_loaders, file) \in {"Ok", "Other"}
          /\ file.decoded # None => current_id + InFlight \in DOMAIN handles
          /\ Goto(t, "load_call", NoId, file.decoded)
    /\ UNCHANGED << lock, alive, warned >>
    /\ StorageKept /\ OthersKept

\* load_file: self.inner.read(), kept while the loader runs
LoadRead(t) ==
    /\ ~fatal
    /\ pc[t].at = "load_call"
    /\ can_lock_shared(lock)
    /\ lock' = lock_shared(lock, t)
    /\ Goto(t, "load_read", NoId, pc[t].asset)
    /\ UNCHANGED << alive, warned >>
    /\ StorageKept /\ OthersKept

\* a load_file that stores whatever the loader left
returns_early_never(result) == FALSE

\* the `?` after loader.load_path: an Err leaves load_file at once
returns_early(result) == result = None

\* load_file: the loader returns and the read guard is dropped; its error
\* is returned, its asset goes on to self.inner.write()
LoadReturn(t) ==
    /\ ~fatal
    /\ pc[t].at = "load_read"
    /\ lock' = unlock_shared(lock, t)
    /\ IF returns_early(pc[t].asset)
         THEN pc' = [pc EXCEPT ![t] = Outside]
         ELSE Goto(t, "insert_call", NoId, pc[t].asset)
    /\ reentered' = [reentered EXCEPT ![t] = NotReentered]
    /\ UNCHANGED << alive, warned >>
    /\ StorageKept
    /\ UNCHANGED << order_vars, last_load, manager_vars, runner, instances, handler >>

\* insert_asset / load_file: self.inner.write() sets WRITER_BIT
InsertLock(t) ==
    /\ ~fatal
    /\ pc[t].at = "insert_call"
    /\ can_lock_exclusive(lock)
    /\ lock' = lock_exclusive(lock, t)
    /\ Goto(t, "insert_wait", NoId, pc[t].asset)
    /\ UNCHANGED << alive, warned >>
    /\ StorageKept /\ OthersKept

\* insert_asset / load_file: the write guard is there, and
\* AssetStorageInner::insert_asset takes the id and enters it in both maps
InsertWrite(t) ==
    /\ ~fatal
    /\ pc[t].at = "insert_wait"
    /\ granted(lock, t)
    /\ LET n == get_next(current_id)
       IN  /\ current_id' = n.next
           /\ loaded_assets' = MapInsert(loaded_assets, n.id, pc[t].asset)
           /\ handle_count' = insert_count(handle_count, n.id)
           /\ Goto(t, "insert_new", n.id, pc[t].asset)
    /\ UNCHANGED << removed_assets, asset_loaders, channel, handles, fatal,
                    issued, evicted, recent, lock, alive, warned >>
    /\ OthersKept

\* AssetStorageInner::insert_asset ends in Handle::new, which sends the
\* Increase; the handle is returned and the write guard is dropped
InsertSend(t) ==
    /\ ~fatal
    /\ pc[t].at = "insert_new"
    /\ channel' = send_increase(channel, pc[t].id)
    /\ handles' = [handles EXCEPT ![pc[t].id] = @ + 1]
    /\ issued' = Append(issued, pc[t].id)
    /\ recent' = Remember("other", NoId)
    /\ lock' = unlock_exclusive(lock)
    /\ pc' = [pc EXCEPT ![t] = Outside]
    /\ UNCHANGED << current_id, loaded_assets, removed_assets, handle_count,
                    asset_loaders, fatal, evicted, alive, warned >>
    /\ OthersKept

\* a drop that unwraps the result of its send
send_failed_in_drop_unwrapped(w) == [warned |-> w, fatal |-> TRUE]

\* Handle::drop's `if let Err(_)` arm: one log::warn! line, no panic
send_failed_in_drop(w) == [warned |-> w + 1, fatal |-> FALSE]

\* a Handle::new that goes on to build the handle after a failed send
send_failed_in_new_ignored(n) == [handles |-> n + 1, fatal |-> FALSE]

\* Handle::new's `.unwrap()` of the send: a failed send panics before the
\* handle is built; n is the number of handles for the id
send_failed_in_new(n) == [handles |-> n, fatal |-> TRUE]

\* a send that wants the storage's lock free
can_send_unlocked(l) == l = Unlocked

\* Sender::send looks at no lock of the storage
can_send(l) == TRUE

\* Handle::clone of a handle for id, on any thread: Handle::new unwraps the
\* send, which fails once the receiver is gone
CloneOf(id) ==
    /\ ~fatal
    /\ Len(channel) < MaxThreadQueue
    /\ can_send(lock)
    /\ handles[id] > 0
    /\ handles[id] < MaxThreadHandles
    /\ IF alive
         THEN /\ channel' = send_increase(channel, id)
              /\ handles' = [handles EXCEPT ![id] = @ + 1]
              /\ fatal' = fatal
         ELSE /\ fatal' = send_failed_in_new(handles[id]).fatal
              /\ handles' = [handles EXCEPT ![id] = send_failed_in_new(@).handles]
              /\ channel' = channel
    /\ UNCHANGED << current_id, loaded_assets, removed_assets, handle_count,
                    asset_loaders, issued, evicted, recent, thread_vars >>
    /\ OthersKept

CloneAnywhere == \E id \in DOMAIN handles : CloneOf(id)

\* Handle::drop of a handle for id, on any thread: a failed send is logged
\* and nothing else
DropOf(id) ==
    /\ ~fatal
    /\ Len(channel) < MaxThreadQueue
    /\ can_send(lock)
    /\ handles[id] > 0
    /\ handles' = [handles EXCEPT ![id] = @ - 1]
    /\ IF alive
         THEN channel' = send_decrease(channel, id) /\ UNCHANGED << warned, fatal >>
         ELSE /\ channel' = channel
              /\ warned' = send_failed_in_drop(warned).warned
              /\ fatal' = send_failed_in_drop(warned).fatal
    /\ UNCHANGED << current_id, loaded_assets, removed_assets, handle_count,
                    asset_loaders, issued, evicted, recent, lock, pc, alive >>
    /\ OthersKept

DropAnywhere == \E id \in DOMAIN handles : DropOf(id)

\* the maintenance thread calls update_handles
PassCall ==
    /\ ~fatal /\ alive
    /\ pc[Maintainer] = Outside
    /\ Goto(Maintainer, "pass_call", NoId, None)
    /\ UNCHANGED << lock, alive, warned >>
    /\ StorageKept /\ OthersKept

\* self.write() sets WRITER_BIT
PassLock ==
    /\ ~fatal
    /\ pc[Maintainer].at = "pass_call"
    /\ can_lock_exclusive(lock)
    /\ lock' = lock_exclusive(lock, Maintainer)
    /\ Goto(Maintainer, "pass_wait", NoId, None)
    /\ UNCHANGED << alive, warned >>
    /\ StorageKept /\ OthersKept

\* the write guard is there: removed_assets.clear()
PassClear ==
    /\ ~fatal
    /\ pc[Maintainer].at = "pass_wait"
    /\ granted(lock, Maintainer)
    /\ removed_assets' = cleared(removed_assets)
    /\ Goto(Maintainer, "pass_drain", NoId, None)
    /\ UNCHANGED << current_id, loaded_assets, handle_count, asset_loaders, channel,
                    handles, fatal, issued, evicted, recent, lock, alive, warned >>
    /\ OthersKept

\* one turn of the receive loop: try_recv and the arm of the signal; a
\* panic unwinds through the write guard
PassRecv ==
    /\ ~fatal
    /\ pc[Maintainer].at = "pass_drain"
    /\ LET r == try_recv(channel, senders(handles, alive)) IN
         CASE r = "Empty" ->
                /\ Goto(Maintainer, "pass_remove", NoId, None)
                /\ UNCHANGED << channel, handle_count, removed_assets, fatal, lock >>
           [] r = "Disconnected" ->
                /\ fatal' = TRUE
                /\ lock' = unlock_exclusive(lock)
                /\ pc' = [pc EXCEPT ![Maintainer] = Outside]
                /\ UNCHANGED << channel, handle_count, removed_assets >>
           [] r = "Ok" ->
                \E checked \in BOOLEAN :
                  LET sig  == Head(channel)
                      next == IF sig.kind = "Increase"
                                THEN apply_increase(handle_count, sig.id)
                                ELSE apply_decrease(handle_count, sig.id, checked)
                  IN  /\ channel' = Tail(channel)
                      /\ IF next.ok
                           THEN /\ handle_count' = next.count
                                /\ removed_assets' =
                                     IF sig.kind = "Decrease" /\ reached_zero(next.count, sig.id)
                                       THEN Append(removed_assets, sig.id)
                                       ELSE removed_assets
                                /\ UNCHANGED << fatal, lock, pc >>
                           ELSE /\ fatal' = TRUE
                                /\ lock' = unlock_exclusive(lock)
                                /\ pc' = [pc EXCEPT ![Maintainer] = Outside]
                                /\ UNCHANGED << handle_count, removed_assets >>
    /\ UNCHANGED << current_id, loaded_assets, asset_loaders, handles, issued,
                    evicted, recent, alive, warned >>
    /\ OthersKept

\* "Remove pending assets", and the write guard is dropped
PassRemove ==
    /\ ~fatal
    /\ pc[Maintainer].at = "pass_remove"
    /\ loaded_assets' = remove_pending(loaded_assets, removed_assets)
    /\ handle_count' = remove_pending(handle_count, removed_assets)
    /\ evicted' = evicted \cup SeqToSet(removed_assets)
    /\ lock' = unlock_exclusive(lock)
    /\ pc' = [pc EXCEPT ![Maintainer] = Outside]
    /\ UNCHANGED << current_id, removed_assets, asset_loaders, channel, handles,
                    fatal, issued, recent, alive, warned >>
    /\ OthersKept

\* the storage is dropped while no thread is inside a call: sender and
\* receiver go, and with the receiver the signals still queued
DropStorage ==
    /\ ~fatal /\ alive
    /\ \A t \in Threads : pc[t] = Outside
    /\ alive' = FALSE
    /\ channel' = << >>
    /\ UNCHANGED << current_id, loaded_assets, removed_assets, handle_count,
                    asset_loaders, handles, fatal, issued, evicted, recent,
                    lock, pc, warned >>
    /\ OthersKept

NextThreads ==
    \/ \E t \in Workers :
          \/ GetCall(t)
          \/ GetAcquire(t)
          \/ GetRelease(t)
          \/ InsertCall(t)
          \/ LoadCall(t)
          \/ LoadRead(t)
          \/ LoadReturn(t)
          \/ InsertLock(t)
          \/ InsertWrite(t)
          \/ InsertSend(t)
    \/ CloneAnywhere
    \/ DropAnywhere
    \/ PassCall
    \/ PassLock
    \/ PassClear
    \/ PassRecv
    \/ PassRemove
    \/ DropStorage

\* what a worker inside a call does next
WorkerStep(t) ==
    \/ GetAcquire(t)
    \/ GetRelease(t)
    \/ LoadRead(t)
    \/ LoadReturn(t)
    \/ InsertLock(t)
    \/ InsertWrite(t)
    \/ InsertSend(t)

\* what the maintenance thread inside update_handles does next
PassStep == PassLock \/ PassClear \/ PassRecv \/ PassRemove

\* Every thread is scheduled again and again, and parking_lot hands the
\* lock to every thread that keeps asking for it: a thread whose next step
\* can be taken again and again takes it.
FairThreads ==
    /\ \A t \in Workers : SF_vars(WorkerStep(t))
    /\ SF_vars(PassStep)

SpecThreads == InitThreads /\ [][NextThreads]_vars

\* the one id of the runs under fairness
FairIds == {0}

InitThreadsFair == ThreadsStart(FairIds)

SpecThreadsFair == InitThreadsFair /\ [][NextThreads]_vars /\ FairThreads

\* a call of thread t is under way
Started(t) == pc[t].at # "idle"

\* a clone or a drop puts a signal on the channel
Produce == CloneAnywhere \/ DropAnywhere

\* C22 as stated: with threads in get, insert, load, clone and drop while
\* another thread runs the pass, every started call eventually completes.
C22_EveryCallCompletes == \A t \in Threads : Started(t) ~> ~Started(t)

\* C22: with threads in get (releasing the guard), insert, load with a
\* loader that returns without calling into the storage, clone and drop while
\* another thread runs the pass, no reachable state is a deadlock, and once
\* clones and drops stop feeding the channel every started call completes.
C22_CompletesOnceSignalsStop ==
    (<>[][~Produce]_vars) => (\A t \in Threads : Started(t) ~> ~Started(t))

\* the pass drains while one thread waits in get and another in load_file
C22_Witness ==
    /\ pc[Maintainer].at = "pass_drain"
    /\ channel # << >>
    /\ \E t, u \in Workers : pc[t].at = "get_call" /\ pc[u].at = "load_call"

\* the threads that hold a read guard returned by get_asset or get_storage
GuardHolders == {t \in Workers : pc[t].at = "get_hold"}

\* while a guard is held the mapping and the liveness entries stay
GuardKeepsMapping ==
    GuardHolders # {} =>
        /\ loaded_assets' = loaded_assets
        /\ DOMAIN handle_count' = DOMAIN handle_count

\* while a guard is held, a get call of another thread can take the lock
ReadersShare ==
    \A t \in GuardHolders, u \in Workers :
        pc[u].at = "get_call" => can_lock_shared(lock)

\* get_asset on an id that is not in the mapping returns None and keeps no
\* guard; on an id that is in it, the guard and the asset
GetAnswers ==
    \A t \in Workers :
        (pc[t].at = "get_call" /\ pc[t].id # NoId /\ pc'[t] # pc[t]) =>
            IF pc[t].id \in DOMAIN loaded_assets
              THEN /\ pc'[t].at = "get_hold"
                   /\ pc'[t].asset = loaded_assets[pc[t].id]
                   /\ t \in lock'.readers
              ELSE /\ pc'[t] = Outside
                   /\ t \notin lock'.readers

\* C23: while a read guard returned by get or get_storage is held, no
\* insertion into and no eviction from the mapping takes effect, other get
\* calls on the storage still complete, and get returns nothing when the id
\* is absent from the mapping.
C23_GuardBlocksWritesNotReads ==
    [][GuardKeepsMapping /\ ReadersShare /\ GetAnswers]_vars

\* while a guard is held, a get call of another thread takes the lock
\* unless a writer has asked for it, and waits behind the writer if one has
ReadersShareUnlessWriterWaits ==
    \A t \in GuardHolders, u \in Workers :
        pc[u].at = "get_call" =>
            IF lock.writer = None THEN ENABLED GetAcquire(u) ELSE ~ENABLED GetAcquire(u)

\* C23 (amended): while a read guard returned by get or get_storage is held,
\* no insertion into and no eviction from the mapping takes effect; other get
\* calls on the storage still complete as long as no writer (insert, the
\* insertion of load, the pass) waits for the lock, and wait behind a writer
\* that does; get returns nothing when the id is absent from the mapping.
C23_GuardBlocksWritesAndQueuedReads ==
    [][GuardKeepsMapping /\ ReadersShareUnlessWriterWaits /\ GetAnswers]_vars

\* two threads hold a guard at once, one of them for an id of the mapping
C23_Witness ==
    /\ GuardHolders = Workers
    /\ \E t \in Workers : pc[t].id \in DOMAIN loaded_assets

\* a thread holds the write lock, or a read guard
WriteHeld == lock.writer # None /\ lock.readers = {}

ReadHeld == lock.readers # {}

\* a handle for id can be cloned, and dropped, within the bounds of the runs
CanClone(id) ==
    ~fatal /\ Len(channel) < MaxThreadQueue /\ handles[id] > 0 /\ handles[id] < MaxThreadHandles

CanDrop(id) == ~fatal /\ Len(channel) < MaxThreadQueue /\ handles[id] > 0

\* C24: clone and drop never acquire the storage's lock: each completes
\* while another thread holds the write lock (insert or pass in progress) or
\* a read guard, and every clone and every drop enqueues exactly one signal,
\* behind the signals already queued, none of which is lost.
C24_CloneDropTakeNoLock ==
    [][\A id \in DOMAIN handles :
          /\ CanClone(id) => ENABLED CloneOf(id)
          /\ CanDrop(id) => ENABLED DropOf(id)
          /\ (alive /\ handles[id] > 0 /\ handles'[id] = handles[id] + 1) =>
                /\ channel' = Append(channel, Increase(id))
                /\ lock' = lock /\ pc' = pc
          /\ (alive /\ handles'[id] = handles[id] - 1) =>
                /\ channel' = Append(channel, Decrease(id))
                /\ lock' = lock /\ pc' = pc]_vars

\* the pass holds the write lock in its receive loop, a signal waits, and
\* the handle can be cloned and dropped
C24_Witness ==
    /\ pc[Maintainer].at = "pass_drain"
    /\ WriteHeld
    /\ handle_count = (0 :> 0)
    /\ channel = << Increase(0) >>
    /\ ENABLED CloneOf(0)
    /\ ENABLED DropOf(0)

\* C26: while a storage is alive, its maintenance pass never observes a
\* disconnected queue, whatever handles have been dropped, because the
\* storage owns a sending end; the pass runs only on a storage that is alive.
C26_PassNeverSeesDisconnected ==
    pc[Maintainer].at \in {"pass_wait", "pass_drain", "pass_remove"} =>
        /\ alive
        /\ senders(handles, alive) >= 1
        /\ try_recv(channel, senders(handles, alive)) # "Disconnected"

\* the pass is in its receive loop after every handle has been dropped and
\* every signal drained
C26_Witness ==
    /\ pc[Maintainer].at = "pass_drain"
    /\ current_id > 0
    /\ \A id \in DOMAIN handles : handles[id] = 0
    /\ channel = << >>

\* C27: dropping a handle after its storage has been torn down is not
\* fatal: the drop can be made, the failed Decrease is logged and swallowed,
\* and the handle is gone.
C27_DropAfterTeardownIsSwallowed ==
    [][\A id \in DOMAIN handles :
          /\ (~alive /\ ~fatal /\ handles[id] > 0) => ENABLED DropOf(id)
          /\ (~alive /\ handles'[id] = handles[id] - 1) =>
                /\ ~fatal'
                /\ warned' = warned + 1
                /\ channel' = channel]_vars

\* both handles of an id were dropped after the storage
C27_Witness ==
    /\ ~alive
    /\ ~fatal
    /\ warned = 2
    /\ \A id \in DOMAIN handles : handles[id] = 0

\* the step is the end of a pass: "Remove pending assets" and the return
PassEnds == pc[Maintainer].at = "pass_remove" /\ pc'[Maintainer] = Outside

\* the ids the step takes out of the mapping
Removed == (DOMAIN loaded_assets) \ (DOMAIN loaded_assets')

\* the arm of the receive loop has applied sig to the liveness entry
Applied(sig) ==
    /\ sig.id \in DOMAIN handle_count
    /\ handle_count' = [handle_count EXCEPT ![sig.id] =
                            IF sig.kind = "Increase" THEN @ + 1 ELSE @ - 1]

\* A step leaves every queued signal in the channel, in order, unless it is
\* a turn of the receive loop, which takes the first one and applies it, or
\* the drop of the storage.
NoSignalLost ==
    \/ /\ Len(channel') >= Len(channel)
       /\ SubSeq(channel', 1, Len(channel)) = channel
    \/ /\ pc[Maintainer].at = "pass_drain"
       /\ channel # << >>
       /\ channel' = Tail(channel)
       /\ Applied(Head(channel))
    \/ alive /\ ~alive'

\* C29: when other threads clone and drop handles while a pass drains the
\* queue, the pass never removes an id for which a handle exists when the
\* pass finishes, and a signal the pass did not drain stays queued for the
\* next pass, which applies it.
C29_ConcurrentPassKeepsHeldIds ==
    [][/\ PassEnds => /\ \A id \in Removed : handles[id] = 0
                      /\ channel' = channel
                      /\ Removed = SeqToSet(removed_assets) \cap DOMAIN loaded_assets
       /\ NoSignalLost]_vars

\* the pass has found the queue empty; since then the counted handle was
\* cloned and dropped, and both signals wait for the next pass
C29_Witness ==
    /\ pc[Maintainer].at = "pass_remove"
    /\ handle_count = (0 :> 1)
    /\ handles[0] = 1
    /\ channel = << Increase(0), Decrease(0) >>

\* The receive loop is left for the removal only on an empty queue, and a
\* queue found empty stays empty until a handle is cloned or dropped.
ExhaustsQueue ==
    /\ (pc[Maintainer].at = "pass_drain" /\ pc'[Maintainer].at = "pass_remove") =>
          channel = << >> /\ channel' = << >>
    /\ (pc[Maintainer].at = "pass_remove" /\ channel = << >> /\ channel' # << >>) =>
          handles' # handles

\* C30: a maintenance pass terminates and drains the queue to exhaustion:
\* once clones and drops stop producing signals the pass returns, and if no
\* signal is produced during the pass the queue is empty when it returns.
C30_PassTerminatesAndDrains ==
    /\ (<>[][~Produce]_vars) =>
          ((pc[Maintainer].at = "pass_drain") ~> (pc[Maintainer].at = "idle"))
    /\ [][ExhaustsQueue]_vars

\* the pass has drained the Increase of the insert and of a clone and found
\* the queue empty
C30_Witness ==
    /\ pc[Maintainer].at = "pass_remove"
    /\ channel = << >>
    /\ handle_count = (0 :> 2)
    /\ handles[0] = 2

\* ------------------------------------------- the pending-removal list

\* seq holds no id twice
EachOnce(seq) == \A i, j \in DOMAIN seq : seq[i] = seq[j] => i = j

\* C31: after every maintenance pass removed_assets holds exactly the ids
\* this pass removed from the mapping, each once, and so nothing an earlier
\* pass had listed.
C31_PendingListIsThisPassOnly ==
    [][UpdateHandles =>
          /\ SeqToSet(removed_assets') = (DOMAIN loaded_assets) \ (DOMAIN loaded_assets')
          /\ EachOnce(removed_assets')
          /\ SeqToSet(removed_assets') \cap evicted = {}]_vars

\* A first pass had evicted id 0; the pass that has just run evicted id 1
\* and lists only that one.
C31_Witness ==
    /\ AfterPass
    /\ evicted = {0, 1}
    /\ removed_assets = << 1 >>
    /\ loaded_assets = << >>

\* ------------------------------------------------ insertion under the lock

\* the Increase of the handle that insert_asset returns for id has been
\* applied by a pass: the count is above 0, or it has come back to 0 in the
\* pass under way, which has listed the id for removal
FirstIncreaseCounted(id) ==
    /\ id \in DOMAIN handle_count
    /\ handle_count[id] > 0 \/ id \in SeqToSet(removed_assets)

\* an id of the mapping without liveness entry, or whose first Increase is
\* neither counted nor in the queue
HandleLess(id) ==
    /\ id \in DOMAIN loaded_assets
    /\ ~FirstIncreaseCounted(id)
    /\ Signals(channel, "Increase", id) = 0

\* the pass holds the write lock and reads the storage
PassObserves == pc[Maintainer].at \in {"pass_drain", "pass_remove"}

\* C32: an id is in the mapping without its liveness entry or its first
\* Increase only inside the insert that holds the write lock, so a pass on
\* another thread never observes such an id.
C32_NoHandleLessAssetObserved ==
    alive =>
        /\ \A id \in DOMAIN loaded_assets :
              /\ id \in DOMAIN handle_count
              /\ HandleLess(id) =>
                    \E t \in Workers :
                        /\ pc[t].at = "insert_new"
                        /\ pc[t].id = id
                        /\ granted(lock, t)
        /\ PassObserves => \A id \in DOMAIN loaded_assets : ~HandleLess(id)

\* an insert has entered id 0 in both maps and not yet sent the Increase,
\* and the maintenance thread has called the pass
C32_Witness ==
    /\ \E t \in Workers : pc[t].at = "insert_new" /\ pc[t].id = 0
    /\ pc[Maintainer].at = "pass_call"
    /\ HandleLess(0)
    /\ handle_count = (0 :> 0)

\* --------------------------------------------- the loader before the store

\* what the loaders of the threads' load calls decode
LoadedData == {f.decoded : f \in ThreadFiles} \ {None}

\* thread t is in load_file, before or inside loader.load_path
InLoader(t) == pc[t].at \in {"load_call", "load_read"}

\* a step of t's load up to the return of its loader touches nothing of the
\* storage, and a loader that fails ends the call
LoaderTouchesNothing(t) ==
    (InLoader(t) /\ pc'[t] # pc[t]) =>
        /\ UNCHANGED << current_id, loaded_assets, handle_count, removed_assets, channel >>
        /\ (pc[t].at = "load_read" /\ pc[t].asset = None) => pc'[t] = Outside
        /\ (pc[t].at = "load_read" /\ pc[t].asset # None) =>
              pc'[t] = [at |-> "insert_call", id |-> NoId, asset |-> pc[t].asset]

\* a loader's result enters the mapping in the step of a thread whose loader
\* has returned it and which holds the write lock, together with its id
StoredAfterLoader ==
    \A id \in (DOMAIN loaded_assets') \ (DOMAIN loaded_assets) :
        loaded_assets'[id] \in LoadedData =>
            \E t \in Workers :
                /\ pc[t] = [at |-> "insert_wait", id |-> NoId, asset |-> loaded_assets'[id]]
                /\ granted(lock, t)
                /\ pc'[t].at = "insert_new"
                /\ id = current_id
                /\ current_id' = id + 1

\* from the id to the return of the handle the inserting thread keeps the
\* write lock, and no step of another thread inserts or evicts
InsertionExcludes(t) ==
    pc[t].at = "insert_new" =>
        /\ granted(lock, t)
        /\ pc'[t] = pc[t] =>
              UNCHANGED << current_id, loaded_assets, handle_count, removed_assets >>
        /\ pc'[t] # pc[t] =>
              /\ pc'[t] = Outside
              /\ UNCHANGED << current_id, loaded_assets, handle_count, removed_assets >>
              /\ channel' = Append(channel, Increase(pc[t].id))

\* C33: in load_file the matched loader runs to completion before the
\* storage is modified: no id is assigned and nothing enters the mapping
\* until the loader has returned successfully, and the insertion of its
\* result excludes other inserts and evictions.
C33_LoaderReturnsBeforeStore ==
    [][/\ StoredAfterLoader
       /\ \A t \in Workers : LoaderTouchesNothing(t) /\ InsertionExcludes(t)]_vars

\* one thread is inserting the result of its loader under the write lock
\* while the loader of the other thread has yet to run and the pass waits
C33_Witness ==
    /\ \E t, u \in Workers :
          /\ pc[t] = [at |-> "insert_new", id |-> 0, asset |-> "ipsum"]
          /\ pc[u].at = "load_call"
    /\ pc[Maintainer].at = "pass_call"
    /\ loaded_assets = (0 :> "ipsum")

\* ------------------------------------------------------ signal conservation

\* C34: in every state, for every id of the mapping, the liveness count
\* plus the Increase signals for the id still in the queue minus the
\* Decrease signals for it still in the queue is the number of handles that
\* exist for the id.
C34_SignalConservation ==
    alive =>
        \A id \in DOMAIN loaded_assets :
            /\ id \in DOMAIN handle_count
            /\ handle_count[id] + Signals(channel, "Increase", id)
                  - Signals(channel, "Decrease", id) = handles[id]

\* between two passes: two handles are counted, one of them has been
\* dropped since and the other cloned, and both signals are in the queue
C34_Witness ==
    /\ alive
    /\ pc[Maintainer] = Outside
    /\ handle_count = (0 :> 2)
    /\ channel = << Decrease(0), Increase(0) >>
    /\ handles[0] = 2

\* ------------------------------------------------------- no fatal branch

\* the receive loop, run on the signals now queued with overflow checks
\* on, would hit neither unimplemented!() nor the step 0 - 1
QueueIsSound == ~drain(channel, handle_count, << >>, TRUE).fatal

\* the next turn of the receive loop has an entry for its signal, and a
\* count above 0 for a Decrease
NextTurnIsSound ==
    (pc[Maintainer].at = "pass_drain" /\ channel # << >>) =>
        LET sig == Head(channel)
        IN  /\ sig.id \in DOMAIN handle_count
            /\ sig.kind = "Decrease" => handle_count[sig.id] >= 1

\* C35: no sequence of insert, load, clone, drop and maintenance makes the
\* pass hit a fatal branch: it never drains a signal for an id without
\* liveness entry and never applies a Decrease to a count that is 0.
C35_PassNeverFatal ==
    alive =>
        /\ ~fatal
        /\ QueueIsSound
        /\ NextTurnIsSound
        /\ \A id \in DOMAIN handle_count : handle_count[id] >= 0

\* the pass is about to apply the Decrease of the last handle to count 1
C35_Witness ==
    /\ pc[Maintainer].at = "pass_drain"
    /\ handle_count = (0 :> 1)
    /\ channel = << Decrease(0) >>
    /\ handles[0] = 0
    /\ ~fatal

\* ------------------------------------------- handles that outlive the storage

\* a handle for id has outlived the storage, and no panic has occurred
Outlives(id) == ~alive /\ ~fatal /\ handles[id] > 0

\* C36: on a disconnected queue the clone of a handle aborts instead of
\* returning a handle, whereas the drop of that same handle completes.
C36_CloneAbortsDropCompletes ==
    [][\A id \in DOMAIN handles :
          /\ (Outlives(id) /\ handles[id] < MaxThreadHandles) => ENABLED CloneOf(id)
          /\ Outlives(id) => ENABLED DropOf(id)
          /\ ~alive => handles'[id] <= handles[id]
          /\ (Outlives(id) /\ CloneOf(id)) =>
                fatal' /\ handles' = handles /\ warned' = warned
          /\ (Outlives(id) /\ DropOf(id)) =>
                ~fatal' /\ handles'[id] = handles[id] - 1]_vars

\* two handles outlived the storage: the drop of one has completed, the
\* clone of the other has aborted
C36_Witness ==
    /\ ~alive
    /\ warned = 1
    /\ fatal
    /\ handles[0] = 1

\* --------------------------------------- a loader that re-enters its storage

\* the one id of the runs with a re-entering loader
ReenterIds == {0}

InitReenter == ThreadsStart(ReenterIds)

\* what the steps of a loader's nested call leave alone
ReenterFrame ==
    /\ StorageKept
    /\ UNCHANGED << order_vars, last_load, manager_vars, runner, instances, handler, alive, warned >>

\* thread t is inside loader.load_path, under the read guard of load_file,
\* and the loader has not called into the storage yet
LoaderRuns(t) ==
    /\ ~fatal
    /\ pc[t].at = "load_read"
    /\ reentered[t] = NotReentered

\* the loader calls insert_asset on the storage it loads for
LoaderCallsInsert(t) ==
    /\ LoaderRuns(t)
    /\ current_id + InFlight \in DOMAIN handles
    /\ \E asset \in Assets : Goto(t, "insert_call", NoId, asset)
    /\ reentered' = [reentered EXCEPT ![t].outer = pc[t]]
    /\ lock' = lock
    /\ ReenterFrame

\* the loader calls load_file on the storage it loads for: a path that
\* fails a check returns its error at once, any other path goes on to
\* self.inner.read()
LoaderCallsLoad(t) ==
    /\ LoaderRuns(t)
    /\ \E file \in Files :
          LET outcome == load_outcome(asset_loaders, file)
          IN  IF outcome \in {"Ok", "Other"}
                THEN /\ file.decoded # None => current_id + InFlight \in DOMAIN handles
                     /\ Goto(t, "nested_call", NoId, file.decoded)
                     /\ reentered' = [reentered EXCEPT ![t].outer = pc[t]]
                ELSE /\ pc' = pc
                     /\ reentered' = [reentered EXCEPT ![t].ret = outcome]
    /\ lock' = lock
    /\ ReenterFrame

\* the nested load_file: self.inner.read(), a second read guard of the
\* same thread, which waits while WRITER_BIT is set
NestedRead(t) ==
    /\ ~fatal
    /\ pc[t].at = "nested_call"
    /\ can_lock_shared(lock)
    /\ lock' = lock_shared(lock, t)
    /\ Goto(t, "nested_read", NoId, pc[t].asset)
    /\ reentered' = reentered
    /\ ReenterFrame

\* the nested load_file: its loader returns and its read guard is dropped,
\* the guard of the outer call stays; an error goes back to the outer
\* loader, an asset goes on to self.inner.write()
NestedReturn(t) ==
    /\ ~fatal
    /\ pc[t].at = "nested_read"
    /\ lock' = lock
    /\ IF returns_early(pc[t].asset)
         THEN /\ pc' = [pc EXCEPT ![t] = reentered[t].outer]
              /\ reentered' = [reentered EXCEPT ![t] = [outer |-> Outside, ret |-> "Other"]]
         ELSE /\ Goto(t, "insert_call", NoId, pc[t].asset)
              /\ reentered' = reentered
    /\ ReenterFrame

NextReenter ==
    \/ NextThreads
    \/ \E t \in Workers :
          \/ LoaderCallsInsert(t)
          \/ LoaderCallsLoad(t)
          \/ NestedRead(t)
          \/ NestedReturn(t)

SpecReenter == InitReenter /\ [][NextReenter]_vars

\* the loader of t's load_file has called insert_asset or load_file on the
\* storage, and load_file has not returned since
Called(t) == reentered[t] # NotReentered

\* a call made by t's loader is under way
Nested(t) == reentered[t].outer # Outside

\* t's loader is inside loader.load_path or a call made from it
InsideLoader(t) == pc[t].at \in {"load_read", "nested_call", "nested_read"} \/ Nested(t)

\* while a loader runs, no insert and no pass of another thread gets the
\* write lock, and the maps and the id generator stay as they are
OthersBlocked ==
    (\E t \in Workers : InsideLoader(t)) =>
        /\ \A u \in Workers : ~ENABLED InsertWrite(u)
        /\ ~ENABLED PassClear
        /\ UNCHANGED << current_id, loaded_assets, handle_count, removed_assets >>

\* C37 as stated: a loader that calls insert or load on the storage it
\* loads for never returns, and while a loader runs the inserts and the
\* pass of other threads are blocked.
C37_ReenteringLoaderNeverReturns ==
    [][(\A t \in Workers : Called(t) => Called(t)') /\ OthersBlocked]_vars

\* the nested call waits for the write lock under the read guard of its own
\* thread, or for a second read guard behind a waiting writer
Deadlocked(t) ==
    /\ Nested(t)
    /\ t \in lock.readers
    /\ \/ pc[t].at \in {"insert_call", "insert_wait"}
       \/ pc[t].at = "nested_call" /\ lock.writer # None

\* a nested load_file that failed has given its error back to the loader,
\* which runs on and can return
Resumed(t) == reentered[t].outer = Outside /\ reentered[t].ret # None

\* C37 (amended): the loader runs under the read guard of load_file; a
\* loader that calls insert, or a load that passes its checks and decodes
\* its file, on the same storage never returns (the write acquisition waits
\* for the read guard of its own thread), nor does a nested load that asks
\* for its read guard while a writer waits; a nested load that fails returns
\* its error to the loader; and while a loader runs the inserts and the
\* pass of other threads are blocked.
C37_ReenteringLoaderDeadlocksAtLock ==
    [][/\ \A t \in Workers :
            /\ Deadlocked(t) => Deadlocked(t)' /\ pc'[t].at # "insert_new"
            /\ (Nested(t) /\ ~Nested(t)') =>
                  /\ pc[t].at = "nested_read"
                  /\ pc[t].asset = None
                  /\ pc'[t] = reentered[t].outer
            /\ (Nested(t) /\ pc[t].at = "nested_read" /\ pc[t].asset # None /\ pc'[t] # pc[t]) =>
                  pc'[t].at = "insert_call" /\ Nested(t)'
            /\ (Resumed(t) /\ pc[t].at = "load_read") => ENABLED LoadReturn(t)
       /\ OthersBlocked]_vars

\* the loader of one thread has called insert and waits for the write lock
\* under its own read guard; a get of the other thread and the pass wait
\* behind it
C37_Witness ==
    \E t, u \in Workers :
        /\ Deadlocked(t)
        /\ pc[t].at = "insert_wait"
        /\ lock.writer = t
        /\ pc[u].at = "get_call"
        /\ pc[Maintainer].at = "pass_call"

\* ------------------------------------------- a storage nobody maintains

\* no AssetManager entry points at the storage, so no pass has run on it
Unmaintained(cell) == \A type \in DOMAIN storages : storages[type] # cell

\* the assets of all storages that the step adds, and that it removes
Entered == {a \in Cells \X (0 .. MaxManagedIds) :
               /\ a[2] \in DOMAIN stores'[a[1]].loaded_assets
               /\ a[2] \notin DOMAIN stores[a[1]].loaded_assets}

Left == {a \in Cells \X (0 .. MaxManagedIds) :
            /\ a[2] \in DOMAIN stores[a[1]].loaded_assets
            /\ a[2] \notin DOMAIN stores'[a[1]].loaded_assets}

\* the handles of storage cell that the step constructs (one per insert),
\* clones (one per new asset that owns a handle of cell) and drops (the
\* handles the application lets go, and those that leave with their asset)
Constructed(cell) == stores'[cell].current_id - stores[cell].current_id

Cloned(cell) ==
    Cardinality({a \in Entered : stores'[a[1]].loaded_assets[a[2]].material.cell = cell})

Dropped(cell) ==
    Cardinality({h \in held \ held' : h.cell = cell})
      + Cardinality({a \in Left : stores[a[1]].loaded_assets[a[2]].material.cell = cell})

\* C38: eviction happens only through a maintenance pass: a storage whose
\* maintenance is never invoked keeps every asset however many handles are
\* dropped, and its queue grows by one signal per handle construction,
\* clone and drop.
C38_NoPassNoEviction ==
    [][/\ Left # {} => UNCHANGED << held, storages >>
       /\ \A cell \in Cells :
            Unmaintained(cell) =>
                /\ DOMAIN stores[cell].loaded_assets = 0 .. (stores[cell].current_id - 1)
                /\ DOMAIN stores[cell].loaded_assets \subseteq DOMAIN stores'[cell].loaded_assets
                /\ stores'[cell].removed_assets = << >>
                /\ Len(stores'[cell].channel) =
                      Len(stores[cell].channel) + Constructed(cell) + Cloned(cell) + Dropped(cell)
                /\ SubSeq(stores'[cell].channel, 1, Len(stores[cell].channel)) =
                      stores[cell].channel]_vars

\* the second texture storage was never registered: its texture is still
\* there after its only handle was dropped, with both signals queued, while
\* the registered texture storage has evicted its own
C38_Witness ==
    LET kept == [type |-> "Texture", n |-> 2]
        kept_up == [type |-> "Texture", n |-> 1]
    IN  /\ Unmaintained(kept)
        /\ "Texture" \in DOMAIN storages
        /\ storages["Texture"] = kept_up
        /\ stores[kept].channel = << Increase(0), Decrease(0) >>
        /\ 0 \in DOMAIN stores[kept].loaded_assets
        /\ \A h \in held : h.cell # kept
        /\ stores[kept_up].current_id = 1
        /\ stores[kept_up].loaded_assets = << >>

\* ------------------------------------------------- prepare, render, evict

\* The systems of an application that adds AssetStoragePlugin and
\* Texture3dPlugin, and systems of its own that spawn and despawn sprites.
RenderSystems ==
    { [name |-> "sys_update_time",      stage |-> "First",  sub |-> "Main"],
      [name |-> "app_update",           stage |-> "Update", sub |-> "Main"],
      [name |-> "sys_prep_texture3d",   stage |-> "Update", sub |-> "Last"],
      [name |-> "app_pre_render",       stage |-> "Render", sub |-> "Pre"],
      [name |-> "sys_render_texture3d", stage |-> "Render", sub |-> "Main"],
      [name |-> "sys_update_storage",   stage |-> "Last",   sub |-> "Main"],
      [name |-> "app_last",             stage |-> "Last",   sub |-> "Main"] }

\* the systems the application itself adds
AppSystems == {"app_update", "app_pre_render", "app_last"}

\* every system runs in every stage
render_workload_everything(stage) == RenderSystems

\* the workload WorkloadBuilder::build adds to the world for a stage
render_workload(stage) == {s \in RenderSystems : s.stage = stage}

\* tick after system s of the running workload: the rest of the workload,
\* then the next statement of tick (activate_events finds no event and
\* runs nothing), then the return
after_system(s) ==
    LET left == runner.todo \ {s}
        step == runner.step
    IN  IF left # {} THEN [runner EXCEPT !.todo = left]
        ELSE IF step = Len(TickOrder)
          THEN [runner EXCEPT !.tick = @ + 1, !.step = 0, !.todo = {}]
        ELSE IF TickOrder[step + 1] = "activate_events"
          THEN [runner EXCEPT !.step = step + 2,
                              !.todo = render_workload(TickOrder[step + 2])]
        ELSE [runner EXCEPT !.step = step + 1,
                            !.todo = render_workload(TickOrder[step + 1])]

\* system `name` is the one that runs now
Runs(name) ==
    /\ ~fatal
    /\ runner.step > 0
    /\ \E s \in ready(runner.todo) : s.name = name /\ runner' = after_system(s)

InitRender ==
    /\ StorageNew
    /\ OrderIdle
    /\ LoadIdle
    /\ ManagerIdle
    /\ RunnerIdle
    /\ RenderIdle
    /\ HandlerIdle
    /\ ThreadsIdle

\* what the systems leave alone
RenderFrame == UNCHANGED << order_vars, last_load, manager_vars, handler, thread_vars >>

\* WindowEvent::RedrawRequested: tick begins with the workload of First
RenderRedraw ==
    /\ ~fatal
    /\ runner.step = 0
    /\ runner.tick < MaxTicks
    /\ runner' = [runner EXCEPT !.step = 1, !.todo = render_workload(TickOrder[1])]
    /\ UNCHANGED << current_id, loaded_assets, removed_assets, handle_count,
                    asset_loaders, channel, handles, fatal, issued, evicted, recent,
                    instances >>
    /\ RenderFrame

\* sys_update_time touches no asset
SysUpdateTime ==
    /\ Runs("sys_update_time")
    /\ UNCHANGED << current_id, loaded_assets, removed_assets, handle_count,
                    asset_loaders, channel, handles, fatal, issued, evicted, recent,
                    instances >>
    /\ RenderFrame

\* a system of the application spawns a sprite with a new texture
AppSpawns ==
    /\ \E name \in AppSystems : Runs(name)
    /\ current_id < MaxIds
    /\ Len(channel) < MaxQueue
    /\ \E asset \in Assets : InsertInner(asset)
    /\ UNCHANGED instances
    /\ RenderFrame

\* a system of the application spawns a sprite with the clone of a handle
AppClones ==
    /\ \E name \in AppSystems : Runs(name)
    /\ Len(channel) < MaxQueue
    /\ \E id \in Ids :
          /\ handles[id] > 0
          /\ handles[id] < MaxHandles
          /\ channel' = send_increase(channel, id)
          /\ handles' = [handles EXCEPT ![id] = @ + 1]
    /\ UNCHANGED << current_id, loaded_assets, removed_assets, handle_count,
                    asset_loaders, fatal, issued, evicted, recent, instances >>
    /\ RenderFrame

\* a system of the application despawns a sprite, whose handle is dropped
AppDespawns ==
    /\ \E name \in AppSystems : Runs(name)
    /\ Len(channel) < MaxQueue
    /\ \E id \in Ids :
          /\ handles[id] > 0
          /\ channel' = send_decrease(channel, id)
          /\ handles' = [handles EXCEPT ![id] = @ - 1]
    /\ UNCHANGED << current_id, loaded_assets, removed_assets, handle_count,
                    asset_loaders, fatal, issued, evicted, recent, instances >>
    /\ RenderFrame

\* a system of the application leaves the sprites alone
AppIdles ==
    /\ \E name \in AppSystems : Runs(name)
    /\ UNCHANGED << current_id, loaded_assets, removed_assets, handle_count,
                    asset_loaders, channel, handles, fatal, issued, evicted, recent,
                    instances >>
    /\ RenderFrame

\* sys_prep_texture3d: the ids of the handles the sprites hold become the
\* keys of renderer.instances, the keys of no sprite are removed
SysPrepTexture3d ==
    /\ Runs("sys_prep_texture3d")
    /\ instances' = {id \in Ids : handles[id] > 0}
    /\ UNCHANGED << current_id, loaded_assets, removed_assets, handle_count,
                    asset_loaders, channel, handles, fatal, issued, evicted, recent >>
    /\ RenderFrame

\* sys_render_texture3d: render_storage unwraps storage.get(&id) for every
\* key of renderer.instances
SysRenderTexture3d ==
    /\ Runs("sys_render_texture3d")
    /\ fatal' = (\E id \in instances : get_asset(id) = None)
    /\ UNCHANGED << current_id, loaded_assets, removed_assets, handle_count,
                    asset_loaders, channel, handles, issued, evicted, recent,
                    instances >>
    /\ RenderFrame

\* sys_update_storage: the maintenance pass
SysUpdateStorage ==
    /\ Runs("sys_update_storage")
    /\ \E checked \in BOOLEAN :
        LET u == update_handles(channel, handle_count, loaded_assets,
                                removed_assets, checked)
        IN  /\ channel' = u.channel
            /\ fatal' = u.fatal
            /\ removed_assets' = u.removed_assets
            /\ handle_count' = u.handle_count
            /\ loaded_assets' = u.loaded_assets
            /\ evicted' = evicted \cup ((DOMAIN loaded_assets) \ (DOMAIN u.loaded_assets))
    /\ UNCHANGED << current_id, asset_loaders, handles, issued, recent, instances >>
    /\ RenderFrame

NextRender ==
    \/ RenderRedraw
    \/ SysUpdateTime
    \/ AppSpawns
    \/ AppClones
    \/ AppDespawns
    \/ AppIdles
    \/ SysPrepTexture3d
    \/ SysRenderTexture3d
    \/ SysUpdateStorage

SpecRender == InitRender /\ [][NextRender]_vars

\* tick is in stage Render, and sys_render_texture3d has yet to run
BeforeRender ==
    /\ runner.step > 0
    /\ TickOrder[runner.step] = "Render"
    /\ \E s \in runner.todo : s.name = "sys_render_texture3d"

\* C39: within one tick every id the renderer collects from live handles at
\* the end of Update still resolves in its storage during Render, even if
\* the handles are dropped in between, since eviction runs only in Last; the
\* unwrap of the lookup never fails.
C39_PreparedIdsResolveInRender ==
    [][/\ ~fatal'
       /\ (runner'.step > 0 /\ TickOrder[runner'.step] = "Render") =>
             \A id \in instances' : id \in DOMAIN loaded_assets'
       /\ (runner.step > 0 /\ TickOrder[runner.step] = "Render") =>
             /\ instances' = instances
             /\ \A id \in instances : get_asset(id)' = get_asset(id)
       /\ ~((DOMAIN loaded_assets) \subseteq (DOMAIN loaded_assets')) =>
             TickOrder[runner.step] = "Last"]_vars

\* the sprite of texture 0 was despawned between sys_prep_texture3d and
\* sys_render_texture3d: the Decrease waits in the queue, the id is still a
\* key of renderer.instances and still resolves
C39_Witness ==
    /\ BeforeRender
    /\ instances = {0}
    /\ handles[0] = 0
    /\ Signals(channel, "Decrease", 0) = 1
    /\ get_asset(0) # None

\* ------------------------------------------------------ the EventHandler

\* the event types of the application, standing for their TypeId, and the
\* values an event of a type can carry
EventTypes == {"WindowResizeEvent", "GameEvent", "LogEvent"}

EventData == {"small", "large"}

\* EventHandler::event_subscribers: the types WorkloadBuilder::add_event
\* was given a workload for
EventSubscribers == {"WindowResizeEvent", "GameEvent"}

\* the entries of a HashMap<TypeId, Box<dyn Event>> under one key
entry(map, type) == {e \in map : e.type = type}

\* the keys of the map
keys(map) == {e.type : e \in map}

\* EventHandler::add_event: HashMap::insert, which replaces the entry of
\* the type
add_event(pending, type, data) ==
    (pending \ entry(pending, type)) \cup {[type |-> type, data |-> data]}

\* EventHandler::get_event: the active event of the type, if any
get_event(active, type) ==
    IF entry(active, type) = {} THEN None
    ELSE (CHOOSE e \in entry(active, type) : TRUE).data

\* the swap without the pending.clear() that follows it
swap_only(h) == [active |-> h.pending, pending |-> h.active]

\* activate_events with events pending: std::mem::swap(active, pending),
\* then pending.clear()
swap_and_clear(h) == [active |-> h.pending, pending |-> {}]

\* the orders in which HashMap::keys can yield the types of a set
KeyOrders(types) ==
    LET n == Cardinality(types)
    IN  {order \in [1 .. n -> types] : \A i, j \in 1 .. n : order[i] = order[j] => i = j}

InitEvents ==
    /\ StorageIdle
    /\ OrderIdle
    /\ LoadIdle
    /\ ManagerIdle
    /\ RunnerIdle
    /\ RenderIdle
    /\ HandlerIdle
    /\ ThreadsIdle

\* what the calls on the EventHandler leave alone
EventsFrame ==
    UNCHANGED << current_id, loaded_assets, removed_assets, handle_count,
                 asset_loaders, channel, handles, fatal, issued, evicted, recent,
                 order_vars, last_load, manager_vars, runner, instances, thread_vars >>

\* a system calls EventHandler::add_event
AddEventOf(type, data) ==
    /\ handler' = [handler EXCEPT !.pending = add_event(@, type, data)]
    /\ EventsFrame

AddEvent == \E type \in EventTypes, data \in EventData : AddEventOf(type, data)

\* a system calls EventHandler::get_event
GetEventOf(type) ==
    /\ handler' = [handler EXCEPT !.got = [type |-> type,
                                             ret |-> get_event(handler.active, type)]]
    /\ EventsFrame

GetEvent == \E type \in EventTypes : GetEventOf(type)

\* activate_events, as tick calls it: without pending event the active ones
\* are cleared and nothing runs; otherwise the pending events become the
\* active ones and the workload of every subscribed key runs
Activate ==
    /\ IF handler.pending = {}
         THEN handler' = [handler EXCEPT !.active = {}, !.ran = << >>]
         ELSE LET h == swap_and_clear(handler)
              IN  \E order \in KeyOrders(keys(h.active) \cap EventSubscribers) :
                      handler' = [handler EXCEPT !.active = h.active,
                                                 !.pending = h.pending,
                                                 !.ran = order]
    /\ EventsFrame

NextEvents ==
    \/ AddEvent
    \/ GetEvent
    \/ Activate

SpecEvents == InitEvents /\ [][NextEvents]_vars

\* the map holds at most one event per type
OnePerType(map) == \A e, f \in map : e.type = f.type => e = f

\* how many times the workload of the type ran in the last activation
RanTimes(ran, type) == Cardinality({i \in DOMAIN ran : ran[i] = type})

\* C40: events are double-buffered: an added event is not returned by
\* get_event until the next activate_events, is then active until the
\* following activate_events and gone after it unless added again; at most
\* one event per type is kept, a later add replacing the earlier one; and
\* each activation runs the subscribed workload of every active event type
\* exactly once.
C40_EventsDoubleBuffered ==
    [][/\ OnePerType(handler'.pending)
       /\ OnePerType(handler'.active)
       /\ \A type \in EventTypes, data \in EventData :
            AddEventOf(type, data) =>
                /\ get_event(handler'.pending, type) = data
                /\ \A other \in EventTypes :
                      /\ get_event(handler'.active, other) = get_event(handler.active, other)
                      /\ other # type =>
                            get_event(handler'.pending, other) = get_event(handler.pending, other)
       /\ \A type \in EventTypes :
            GetEventOf(type) =>
                /\ handler'.got.ret = get_event(handler.active, type)
                /\ handler'.active = handler.active
                /\ handler'.pending = handler.pending
       /\ Activate =>
            /\ handler'.pending = {}
            /\ \A type \in EventTypes :
                  /\ get_event(handler'.active, type) = get_event(handler.pending, type)
                  /\ RanTimes(handler'.ran, type) =
                        IF type \in keys(handler'.active) \cap EventSubscribers THEN 1 ELSE 0]_vars

\* a resize event is active and its workload has run; a second one, which
\* replaced an earlier add, waits for the next activation, and get_event
\* has just returned the active one
C40_Witness ==
    /\ handler.active = {[type |-> "WindowResizeEvent", data |-> "small"]}
    /\ handler.pending = {[type |-> "WindowResizeEvent", data |-> "large"],
                          [type |-> "LogEvent", data |-> "small"]}
    /\ handler.ran = << "WindowResizeEvent" >>
    /\ handler.got = [type |-> "WindowResizeEvent", ret |-> "small"]

====
